---- MODULE Spec2Model ----
(***************************************************************************)
(* Janus: the CumulusBridge subprocess supervisor (sendMessage,            *)
(* injectMessage, killProcess, the stdout line splitter, the per-line      *)
(* tasks and the completion finalizer), as a state machine.                *)
(*                                                                         *)
(* A call of sendMessage or injectMessage is numbered 1, 2, ... in the     *)
(* order the calls are made; the subprocess a call spawns carries the      *)
(* call's number.  The events sent to the window (win.webContents.send)    *)
(* are logged in `events`, each call's events in the order they were sent. *)
(***************************************************************************)
EXTENDS Integers, Sequences, FiniteSets, TLC

\* ---------------------------------------------------------------- bounds
\* calls of sendMessage / injectMessage made in one run of Spec
MaxCalls == 2
\* stdout chunks the children write in one run of Spec, all together
MaxData == 1
\* stdout chunks the child writes in one run of SpecTurn
MaxTurnData == 2
\* requests the control API receives in one run of SpecApi
MaxRequests == 2
\* calls of getOrCreateThread made in one run of SpecHost
MaxCreations == 3
\* milliseconds that pass in one run of SpecHost
MaxNow == 1
\* ports above HTTP_API_PORT that another process can hold
MaxPortOffset == 2
\* calls of send_to_agent made in one run of SpecMcp
MaxTools == 2
\* the 'janus:web-tab-result' messages for one requestId
MaxResults == 2
\* the invocations of handleCompletion for one turn
MaxInvocations == 2
\* the recent messages handed to formatRecentContext, the token estimate of
\* one message's content, and budgetTokens
MaxMessages == 3
MaxMsgTokens == 3
MaxBudget == 6

VARIABLES
  threads,          \* this.threads: the thread names that have a Thread
  activeProcesses,  \* this.activeProcesses: thread name -> registered child (0: none)
  history,          \* thread.history: thread name -> sequence of messages
  events,           \* call -> what win.webContents.send has sent for it, in order
  calls,            \* call number -> the call's locals and its position
  nCalls,           \* calls made so far
  requests,         \* request number -> a request to the control API and its response
  nRequests,        \* requests received so far
  tabs,             \* thread name -> the chat tabs the renderer has created for it
  pendingThreads,   \* thread name -> 'cumulus:create-thread' calls not yet handled
  serverUp,         \* the host process runs
  creations,        \* call of getOrCreateThread -> its locals and its position
  nCreations,       \* calls of getOrCreateThread made so far
  threadMap,        \* this.threads: thread name -> the Thread (the call that made it, 0: none)
  files,            \* the tool-config files on disk, by path
  now,              \* Date.now()
  listenState,      \* the control API's server: "off", "trying", "listening"
  listenPort,       \* the port of the last server.listen (0: none)
  busy,             \* the ports other processes hold
  destroyed,        \* destroy() has run
  tools,            \* call of send_to_agent -> its arguments, position and result
  nTools,           \* calls of send_to_agent made so far
  prompt,           \* the last call of formatRecentContext: its arguments and its result
  panel             \* the ChatPanel of the thread's tab: its React state and refs

\* the state of the control API and of the renderer
apiVars == <<requests, nRequests, tabs, pendingThreads, serverUp>>

\* the threads and their tool-config files, the clock, the server's port
hostVars == <<creations, nCreations, threadMap, files, now,
              listenState, listenPort, busy, destroyed>>

\* the agent tool server of a child
mcpVars == <<tools, nTools>>

\* the context assembler
promptVars == <<prompt>>

\* the renderer's chat panel
panelVars == <<panel>>

vars == <<threads, activeProcesses, history, events, calls, nCalls,
          requests, nRequests, tabs, pendingThreads, serverUp,
          creations, nCreations, threadMap, files, now,
          listenState, listenPort, busy, destroyed, tools, nTools,
          prompt, panel>>

\* the thread the window's user sends on, and the names the control API is
\* asked about
Threads == {"t1"}
Names == {"t1", "t2"}
CallIds == 1..MaxCalls
\* the request numbers: send_to_agent makes up to three requests
ReqIds == 1..(MaxRequests + 1)
CreationIds == 1..MaxCreations
ToolIds == 1..MaxTools

\* const HTTP_API_PORT = 9223
HTTP_API_PORT == 9223
Ports == HTTP_API_PORT..(HTTP_API_PORT + MaxPortOffset)

\* ------------------------------------------------- the wire and its lines
\* Text is a sequence of characters; NL is the newline character.
NL == "\n"
Sep == <<NL, NL>>

\* A chunk of stdout is a sequence of symbols: the newline, a whitespace
\* character, the whole text of one JSON value, or the pieces of the JSON
\* value of an assistant line with one text block: its text up to the
\* block's text, the characters of that text, and its text from there on.
NLsym == [kind |-> "nl", blocks |-> <<>>]
SPsym == [kind |-> "sp", blocks |-> <<>>]
Junk == [kind |-> "junk", blocks |-> <<>>]
ResultLine == [kind |-> "result", blocks |-> <<>>]
\* well-formed JSON of no shape the decoder knows, as {"type":"ping"}
UnknownLine == [kind |-> "unknown", blocks |-> <<>>]
TextOpen == [kind |-> "open", blocks |-> <<>>]
TextClose == [kind |-> "close", blocks |-> <<>>]
\* a character of two bytes, and U+FFFD, the replacement character
CharSym == [kind |-> "char", blocks |-> <<>>]
FffdSym == [kind |-> "fffd", blocks |-> <<>>]
\* On the wire the symbols above are runs of ASCII bytes, and the character
\* of two bytes is its lead byte and its continuation byte.
LeadByte == [kind |-> "lead", blocks |-> <<>>]
ContByte == [kind |-> "cont", blocks |-> <<>>]

\* data.toString(): the bytes of one chunk decoded as UTF-8, a byte sequence
\* that is not a whole character becoming U+FFFD
RECURSIVE toString(_)
toString(data) ==
  IF data = <<>> THEN <<>>
  ELSE IF Head(data).kind = "lead"
    THEN IF Len(data) >= 2 /\ data[2].kind = "cont"
           THEN <<CharSym>> \o toString(Tail(Tail(data)))
           ELSE <<FffdSym>> \o toString(Tail(data))
  ELSE IF Head(data).kind = "cont" THEN <<FffdSym>> \o toString(Tail(data))
  ELSE <<Head(data)>> \o toString(Tail(data))
TextBlock(t) == [type |-> "text", text |-> t]
ToolUseBlock == [type |-> "tool_use", text |-> <<>>]
ToolResultBlock == [type |-> "tool_result", text |-> <<"r">>]
Assistant(blocks) == [kind |-> "assistant", blocks |-> blocks]
UserLine(blocks) == [kind |-> "user", blocks |-> blocks]

RECURSIVE Join(_, _)
Join(texts, sep) ==
  IF texts = <<>> THEN <<>>
  ELSE IF Len(texts) = 1 THEN texts[1]
  ELSE texts[1] \o sep \o Join(Tail(texts), sep)

\* line.trim(): the line without its whitespace
Trim(line) == SelectSeq(line, LAMBDA s : s.kind # "sp")

\* the symbols that are a whole JSON value
IsValue(s) == s.kind \in {"assistant", "user", "result", "unknown"}

IsChar(s) == s.kind \in {"char", "fffd"}

CharOf(s) == IF s.kind = "char" THEN "e'" ELSE "U+FFFD"

\* JSON.parse(line): the one value the line holds; anything else throws
ParseOk(line) ==
  LET t == Trim(line)
  IN  \/ Len(t) = 1 /\ IsValue(t[1])
      \/ /\ Len(t) >= 2 /\ t[1] = TextOpen /\ t[Len(t)] = TextClose
         /\ \A i \in 2..(Len(t) - 1) : IsChar(t[i])

Parsed(line) ==
  LET t == Trim(line)
  IN  IF Len(t) = 1 THEN t[1]
      ELSE Assistant(<<TextBlock([i \in 1..(Len(t) - 2) |-> CharOf(t[i + 1])])>>)

SegOfBlock(b) == [type |-> b.type, content |-> b.text]

KeepAssistantBlock(b) ==
  \/ b.type \in {"text", "thinking"} /\ b.text # <<>>
  \/ b.type \in {"tool_use", "tool_result"}

KeepUserBlock(b) == b.type = "tool_result"

SegsOf(blocks) == [i \in 1..Len(blocks) |-> SegOfBlock(blocks[i])]

parseStreamSegments(line) ==
  IF Trim(line) = <<>> THEN <<>>
  ELSE IF ~ParseOk(line) THEN <<>>
  ELSE IF Parsed(line).kind = "assistant"
    THEN SegsOf(SelectSeq(Parsed(line).blocks, KeepAssistantBlock))
  ELSE IF Parsed(line).kind = "user"
    THEN SegsOf(SelectSeq(Parsed(line).blocks, KeepUserBlock))
  ELSE IF Parsed(line).kind = "result"
    THEN <<[type |-> "result", content |-> <<>>]>>
  ELSE <<>>

IsTextBlock(b) == b.type = "text" /\ b.text # <<>>

TextsOf(blocks) ==
  LET tb == SelectSeq(blocks, IsTextBlock)
  IN  [i \in 1..Len(tb) |-> tb[i].text]

ExtractRawOnError(line) ==
  IF Trim(line) = <<>> THEN <<>>
  ELSE IF ~ParseOk(line) THEN <<"raw">>
  ELSE IF Parsed(line).kind = "assistant"
    THEN Join(TextsOf(Parsed(line).blocks), Sep)
  ELSE <<>>

\* null is the empty text: a non-null result is never empty
extractTextFromStreamLine(line) ==
  IF Trim(line) = <<>> THEN <<>>
  ELSE IF ~ParseOk(line) THEN <<>>
  ELSE IF Parsed(line).kind = "assistant"
    THEN Join(TextsOf(Parsed(line).blocks), Sep)
  ELSE <<>>

\* buffer.split('\n'): the pieces between the newlines, the last one included
RECURSIVE SplitNL(_, _)
SplitNL(syms, cur) ==
  IF syms = <<>> THEN <<cur>>
  ELSE IF Head(syms).kind = "nl" THEN <<cur>> \o SplitNL(Tail(syms), <<>>)
  ELSE SplitNL(Tail(syms), Append(cur, Head(syms)))

Front(s) == SubSeq(s, 1, Len(s) - 1)

\* ------------------------------------------------------------ the events
NoSeg == [type |-> "none", content |-> <<>>]

Ev(type, c, text, hasMessage, seg) ==
  [type |-> type, call |-> c, text |-> text, message |-> hasMessage, seg |-> seg]

MessageEv(c) == Ev("message", c, <<>>, TRUE, NoSeg)
ChunkEv(c, text) == Ev("stream-chunk", c, text, FALSE, NoSeg)
SegmentEv(c, seg) == Ev("stream-segment", c, <<>>, FALSE, seg)
ErrorEv(c) == Ev("error", c, <<>>, FALSE, NoSeg)
\* stream-end{message, fallbackText}: fallbackText null is the empty text
StreamEndEv(c, hasMessage, fallback) == Ev("stream-end", c, fallback, hasMessage, NoSeg)

\* ------------------------------------------------------------- the calls
\* the child's stdin: mode is the stdio[0] given to spawn ("none" before the
\* spawn), written what claude.stdin.write was given, ended whether
\* claude.stdin.end was called
NoStdin == [mode |-> "none", written |-> <<>>, ended |-> FALSE]

NoCall ==
  [kind |-> "none", thread |-> "t1", pc |-> "none", proc |-> "none",
   signalled |-> FALSE, victim |-> 0, buffer |-> <<>>, pendingLines |-> <<>>,
   fullResponse |-> <<>>, collectedSegments |-> <<>>, completed |-> FALSE,
   resolved |-> FALSE, nData |-> 0, victimDone |-> FALSE, victimText |-> <<>>,
   retrievedContext |-> <<>>, retrievalFailed |-> FALSE, spawnErr |-> "none",
   appendOk |-> "none", sessionFailed |-> FALSE, wire |-> <<>>,
   attachments |-> <<>>, stdin |-> NoStdin, positional |-> <<>>,
   exchange |-> 0, invoked |-> 0]

\* a request: kind and name are the route, valid says the body has the
\* fields the route needs; status 0 is no response yet
NoRequest ==
  [kind |-> "none", name |-> "t1", valid |-> TRUE, pc |-> "none", status |-> 0,
   flag |-> FALSE, available |-> {}, call |-> 0, tabMade |-> FALSE,
   entry |-> FALSE, timer |-> "none", value |-> "none", resolveCalls |-> 0,
   results |-> 0]

\* a call of getOrCreateThread: thread is the Thread it returned (0: none
\* yet), created whether it made that Thread, path the tool-config file it
\* wrote (0: none) and apiPort the port of the JANUS_API_URL in that file
NoCreation ==
  [name |-> "t1", pc |-> "none", thread |-> 0, created |-> FALSE, path |-> 0,
   apiPort |-> 0]

\* a call of send_to_agent by the agent self: req is the request it waits
\* for, reqs the requests it has made, delivered and error its result
NoTool ==
  [self |-> "t1", target |-> "t1", hasMessage |-> TRUE, pc |-> "none",
   req |-> 0, reqs |-> 0, creates |-> 0, createReq |-> 0,
   delivered |-> FALSE, error |-> "none"]

\* no call of formatRecentContext yet
NoPrompt ==
  [ran |-> FALSE, messages |-> <<>>, budget |-> 0, lines |-> <<>>,
   framed |-> FALSE]

\* the chat panel of a thread before any event: messages, streamBuffer
\* (the calls whose text it holds), streamSegments (the calls whose
\* segments it holds), isStreaming, error and streamCapturedRef; read is how
\* many events of each call the panel has handled.  suppressed are the
\* calls whose stream-end was suppressed, interjected the calls sent while
\* a response was streaming, frozen the calls whose text was streaming at
\* such a send.
NoPanel ==
  [messages |-> <<>>, streamBuffer |-> {}, streamSegments |-> {},
   isStreaming |-> FALSE, error |-> FALSE, streamCaptured |-> FALSE,
   read |-> [c \in CallIds |-> 0],
   suppressed |-> {}, interjected |-> {}, frozen |-> {}]

Init ==
  /\ threads = {}
  /\ activeProcesses = [t \in Names |-> 0]
  /\ history = [t \in Names |-> <<>>]
  /\ events = [c \in CallIds |-> <<>>]
  /\ calls = [c \in CallIds |-> NoCall]
  /\ nCalls = 0
  /\ requests = [r \in ReqIds |-> NoRequest]
  /\ nRequests = 0
  /\ tabs = [t \in Names |-> 0]
  /\ pendingThreads = [t \in Names |-> 0]
  /\ serverUp = TRUE
  /\ creations = [k \in CreationIds |-> NoCreation]
  /\ nCreations = 0
  /\ threadMap = [t \in Names |-> 0]
  /\ files = {}
  /\ now = 1
  /\ listenState = "off"
  /\ listenPort = 0
  /\ busy = {}
  /\ destroyed = FALSE
  /\ tools = [k \in ToolIds |-> NoTool]
  /\ nTools = 0
  /\ prompt = NoPrompt
  /\ panel = NoPanel

Set(c, f, v) == [calls EXCEPT ![c][f] = v]
Call(c) == calls[c]

\* victim: the child an injectMessage killed (0: none); victimText: what
\* that child's turn had accumulated when it was killed
NewCall(kind, t, pc, victim) ==
  [NoCall EXCEPT !.kind = kind, !.thread = t, !.pc = pc, !.victim = victim,
                 !.victimText = IF victim = 0 THEN <<>> ELSE calls[victim].fullResponse]

UserText(kind) == IF kind = "inject" THEN <<"[From agent]">> ELSE <<"hi">>

UserMsg(c) == [role |-> "user", call |-> c, content |-> UserText(Call(c).kind)]
AssistantMsg(c) == [role |-> "assistant", call |-> c, content |-> Call(c).fullResponse]

\* proc.kill('SIGTERM')
Signal(cs, p) == [cs EXCEPT ![p].signalled = TRUE]

\* what the calls have sent of one type
Count(c, type) == Cardinality({i \in DOMAIN events[c] : events[c][i].type = type})

Send(c, evs) == [events EXCEPT ![c] = @ \o evs]

\* this.activeProcesses.set(threadName, claude)
Register(t, c) == [activeProcesses EXCEPT ![t] = c]

NeverDeregister(t, c) == activeProcesses

\* this.activeProcesses.delete(threadName)
Deregister(t, c) == [activeProcesses EXCEPT ![t] = 0]

\* --------------------------------------------------------- the operations

\* sendMessage, from the call to its first suspension: the thread is
\* resolved or created, the user message is not yet appended.
sendMessage(t, max) ==
  /\ nCalls < max
  /\ nCalls' = nCalls + 1
  /\ calls' = [calls EXCEPT ![nCalls + 1] = NewCall("send", t, "start", 0)]
  /\ threads' = threads \cup {t}
  /\ UNCHANGED <<activeProcesses, history, events>>

SendMessage(t, max) ==
  /\ sendMessage(t, max)
  /\ UNCHANGED <<apiVars, hostVars, mcpVars, promptVars, panelVars>>

\* the attachments of a call: an image that is read, an image whose
\* readFileSync throws, a file that is no image
AttachmentKinds == {"image", "unreadable", "file"}

\* sendMessage with attachments, from the call to its first suspension
SendWithAttachments(t, max, attachments) ==
  /\ nCalls < max
  /\ nCalls' = nCalls + 1
  /\ calls' = [calls EXCEPT ![nCalls + 1] =
                 [NewCall("send", t, "start", 0) EXCEPT !.attachments = attachments]]
  /\ threads' = threads \cup {t}
  /\ UNCHANGED <<activeProcesses, history, events>>
  /\ UNCHANGED <<apiVars, hostVars, mcpVars, promptVars, panelVars>>

InjectNeverKills(t) == FALSE

\* if (this.activeProcesses.has(threadName))
InjectKills(t) == activeProcesses[t] # 0

\* injectMessage, from the call (the control API calls it for a thread that
\* exists) to its first suspension: the grace timer after a kill, or the
\* suspension of the sendMessage it ends with.
injectMessage(t) ==
  /\ nCalls < MaxCalls
  /\ t \in threads
  /\ nCalls' = nCalls + 1
  /\ IF InjectKills(t)
       THEN /\ calls' = [Signal(calls, activeProcesses[t]) EXCEPT
                           ![nCalls + 1] = NewCall("inject", t, "inj_wait", activeProcesses[t])]
            /\ activeProcesses' = Deregister(t, activeProcesses[t])
       ELSE /\ calls' = [calls EXCEPT ![nCalls + 1] = NewCall("inject", t, "start", 0)]
            /\ UNCHANGED activeProcesses
  /\ UNCHANGED <<threads, history, events>>

\* injectMessage as the control API calls it, the request and its response
\* left aside
InjectMessage(t) == injectMessage(t) /\ UNCHANGED <<apiVars, hostVars, mcpVars, promptVars, panelVars>>

\* the 100 ms timer of injectMessage fires: sendMessage is called.
\* victimDone notes whether the killed child's finalizer had finished by then.
GraceElapsed(c) ==
  /\ Call(c).pc = "inj_wait"
  /\ calls' = [calls EXCEPT ![c].pc = "start",
                            ![c].victimDone = (Call(Call(c).victim).pc = "done")]
  /\ UNCHANGED <<threads, activeProcesses, history, events, nCalls>>
  /\ UNCHANGED <<apiVars, hostVars, mcpVars, promptVars, panelVars>>

\* thread.history.append(user message), then 'cumulus:message'
AppendUser(c) ==
  /\ Call(c).pc = "start"
  /\ history' = [history EXCEPT ![Call(c).thread] = Append(@, UserMsg(c))]
  /\ events' = Send(c, <<MessageEv(c)>>)
  /\ calls' = Set(c, "pc", "appended")
  /\ UNCHANGED <<threads, activeProcesses, nCalls>>
  /\ UNCHANGED <<apiVars, hostVars, mcpVars, promptVars, panelVars>>

RetrieveRethrows(c, throws) ==
  /\ Call(c).pc = "appended"
  /\ calls' = [calls EXCEPT ![c].pc = IF throws THEN "rejected" ELSE "retrieved",
                            ![c].retrievalFailed = throws,
                            ![c].retrievedContext = IF throws THEN <<>> ELSE <<"ctx">>]
  /\ UNCHANGED <<threads, activeProcesses, history, events, nCalls>>
  /\ UNCHANGED <<apiVars, hostVars, mcpVars, promptVars, panelVars>>

\* lib.retrieve(...) in its try block: it returns a context, or it throws and
\* the catch block logs the error; retrievalResult?.context ?? '' is then ''
Retrieve(c, throws) ==
  /\ Call(c).pc = "appended"
  /\ calls' = [calls EXCEPT ![c].pc = "retrieved",
                            ![c].retrievalFailed = throws,
                            ![c].retrievedContext = IF throws THEN <<>> ELSE <<"ctx">>]
  /\ UNCHANGED <<threads, activeProcesses, history, events, nCalls>>
  /\ UNCHANGED <<apiVars, hostVars, mcpVars, promptVars, panelVars>>

SpawnBeforeAppend(c) == Call(c).pc \in {"start", "appended", "retrieved"}

\* the spawn comes after the append of the user message, its event and the
\* retrieval
SpawnReady(c) == Call(c).pc = "retrieved"

\* imageBlocks: one block for each image attachment that was read
imageBlocks(c) == SelectSeq(Call(c).attachments, LAMBDA a : a = "image")

\* fileRefs: a line of text for every other attachment
fileRefs(c) == SelectSeq(Call(c).attachments, LAMBDA a : a # "image")

\* messageForClaude: the text, and the file references after it
messageForClaude(c) == UserText(Call(c).kind) \o fileRefs(c)

HasAttachments(c) == Call(c).attachments # <<>>

\* const hasImages = imageBlocks.length > 0
hasImages(c) == imageBlocks(c) # <<>>

\* JSON.stringify({type: 'user', message: {role: 'user', content: [...]}})
Payload(c) == [type |-> "user", content |-> imageBlocks(c) \o <<messageForClaude(c)>>]

\* stdio[0] of the spawn, and the write and the end that follow it
Stdin(c) ==
  IF hasImages(c)
    THEN [mode |-> "pipe", written |-> <<Payload(c), NLsym>>, ended |-> TRUE]
    ELSE [mode |-> "ignore", written |-> <<>>, ended |-> FALSE]

\* the positional argument at the end of args
Positional(c) == IF hasImages(c) THEN <<>> ELSE <<messageForClaude(c)>>

\* spawn(claudePath, ...), the registration and the handlers
Spawn(c) ==
  /\ SpawnReady(c)
  /\ calls' = [calls EXCEPT ![c].pc = "spawned", ![c].proc = "live",
                            ![c].stdin = Stdin(c), ![c].positional = Positional(c)]
  /\ activeProcesses' = Register(Call(c).thread, c)
  /\ UNCHANGED <<threads, history, events, nCalls>>
  /\ UNCHANGED <<apiVars, hostVars, mcpVars, promptVars, panelVars>>

\* err.message of the 'error' a failed spawn emits
SpawnErrors == {"spawn claude ENOENT", "spawn claude EACCES"}

\* err.message.includes('ENOENT')
IncludesENOENT(message) == message = "spawn claude ENOENT"

NotFoundText == "Claude CLI not found. Please install it first."

RawErrorMsg(message) == message

\* const errorMsg = err.message.includes('ENOENT') ? '...not found...' : err.message
errorMsg(message) == IF IncludesENOENT(message) THEN NotFoundText ELSE message

SpawnErrorEv(c, message) == Ev("error", c, <<errorMsg(message)>>, FALSE, NoSeg)

SpawnErrorEndsStream(c, message) ==
  <<SpawnErrorEv(c, message), StreamEndEv(c, FALSE, <<>>)>>

\* what claude.on('error') sends
SpawnErrorEvents(c, message) == <<SpawnErrorEv(c, message)>>

\* a spawn that fails (ENOENT): spawn returns a child all the same, which is
\* registered, and its 'error' is emitted on the next tick, before any other
\* event is handled: claude.on('error') deregisters, sends the error and
\* resolves the promise
SpawnFails(c, message) ==
  /\ SpawnReady(c)
  /\ calls' = [calls EXCEPT ![c].pc = "spawned", ![c].proc = "errored",
                            ![c].resolved = TRUE, ![c].spawnErr = message,
                            ![c].stdin = Stdin(c), ![c].positional = Positional(c)]
  /\ activeProcesses' = Deregister(Call(c).thread, c)
  /\ events' = Send(c, SpawnErrorEvents(c, message))
  /\ UNCHANGED <<threads, history, nCalls>>
  /\ UNCHANGED <<apiVars, hostVars, mcpVars, promptVars, panelVars>>

\* processLine up to its await: a blank line returns at once
NewTask(line) ==
  [line |-> line, done |-> Trim(line) = <<>>, thrown |-> FALSE]

RECURSIVE SumData(_)
SumData(n) == IF n = 0 THEN 0 ELSE calls[n].nData + SumData(n - 1)

\* the chunks written so far, by all children
DataWritten == SumData(MaxCalls)

\* claude.stdout.on('data')
StdoutData(c, chunk, max) ==
  /\ Call(c).proc = "live"
  /\ DataWritten < max
  /\ LET pieces == SplitNL(Call(c).buffer \o toString(chunk), <<>>)
         lines == Front(pieces)
     IN  calls' = [calls EXCEPT
           ![c].buffer = pieces[Len(pieces)],
           ![c].pendingLines = @ \o [i \in 1..Len(lines) |-> NewTask(lines[i])],
           ![c].nData = @ + 1,
           ![c].wire = @ \o chunk]
  /\ UNCHANGED <<threads, activeProcesses, history, events, nCalls>>
  /\ UNCHANGED <<apiVars, hostVars, mcpVars, promptVars, panelVars>>

\* claude.stderr.on('data'): a chunk that holds ENOENT is sent as an error,
\* any other is dropped
StderrData(c, enoent, max) ==
  /\ Call(c).proc = "live"
  /\ DataWritten < max
  /\ calls' = [calls EXCEPT ![c].nData = @ + 1]
  /\ events' = IF enoent THEN Send(c, <<ErrorEv(c)>>) ELSE events
  /\ UNCHANGED <<threads, activeProcesses, history, nCalls>>
  /\ UNCHANGED <<apiVars, hostVars, mcpVars, promptVars, panelVars>>

\* which of the per-line tasks may resume: streamProcessor.processLine
\* resolves (or rejects) in an order of its own
MayResume(c, i) == ~Call(c).pendingLines[i].done

\* what a line adds to fullResponse: the separator, then its text
Addition(full, text) ==
  IF text = <<>> THEN <<>>
  ELSE IF full # <<>> /\ full[Len(full)] # NL THEN <<Sep, text>>
  ELSE <<text>>

\* a handler that let the rejection through would decode nothing
Rethrown(line) ==
  <<>>

\* catch { processed = { line, modified: false, eventType: 'unknown' } }:
\* processed.line when streamProcessor.processLine rejects
CaughtLine(line) ==
  line

\* processed.line: the line of the stream processor's result, or the raw
\* line when it throws
processedLine(line, throws) ==
  IF throws THEN CaughtLine(line) ELSE line

\* processLine after its await, for the i-th line read, the stream
\* processor having returned or thrown
ProcessLine(c, i, throws) ==
  /\ MayResume(c, i)
  /\ LET line == processedLine(Call(c).pendingLines[i].line, throws)
         add == Addition(Call(c).fullResponse, extractTextFromStreamLine(line))
         segs == parseStreamSegments(line)
     IN  /\ calls' = [calls EXCEPT
               ![c].pendingLines[i].done = TRUE,
               ![c].pendingLines[i].thrown = throws,
               ![c].fullResponse = @ \o Join(add, <<>>),
               ![c].collectedSegments = @ \o segs]
         /\ events' = Send(c, [k \in 1..Len(add) |-> ChunkEv(c, add[k])]
                              \o [k \in 1..Len(segs) |-> SegmentEv(c, segs[k])])
  /\ UNCHANGED <<threads, activeProcesses, history, nCalls>>
  /\ UNCHANGED <<apiVars, hostVars, mcpVars, promptVars, panelVars>>

\* the stream processor returned
LineDone(c, i) ==
  ProcessLine(c, i, FALSE)

\* the stream processor threw
LineThrown(c, i) ==
  ProcessLine(c, i, TRUE)

NotAwaited(tasks) == TRUE

\* await Promise.all(pendingLines) has resolved
AllResolved(tasks) == \A i \in DOMAIN tasks : tasks[i].done

NoTextNoEnd(c) == <<>>

\* what handleCompletion sends when fullResponse is empty
NoTextEnd(c) == <<StreamEndEv(c, FALSE, <<>>)>>

\* handleCompletion up to its await of thread.history.append, or to its end
\* when fullResponse is empty; tasks is pendingLines
NeverCompleted(c) ==
  FALSE

\* if (completed) return: the flag of the turn's promise
AlreadyCompleted(c) ==
  Call(c).completed

Complete(c, tasks) ==
  /\ ~AlreadyCompleted(c)
  /\ activeProcesses' = Deregister(Call(c).thread, c)
  /\ IF Call(c).fullResponse # <<>>
       THEN /\ calls' = [calls EXCEPT ![c].completed = TRUE, ![c].pc = "appending",
                                      ![c].proc = "closed", ![c].pendingLines = tasks,
                                      ![c].invoked = @ + 1]
            /\ UNCHANGED events
       ELSE /\ calls' = [calls EXCEPT ![c].completed = TRUE, ![c].pc = "done",
                                      ![c].resolved = TRUE,
                                      ![c].proc = "closed", ![c].pendingLines = tasks,
                                      ![c].invoked = @ + 1]
            /\ events' = Send(c, NoTextEnd(c))
  /\ UNCHANGED <<threads, history, nCalls>>

\* handleCompletion invoked again for a turn it was invoked for: with the
\* flag set it returns at once
HandleCompletionAgain(c) ==
  /\ Call(c).invoked >= 1
  /\ Call(c).invoked < MaxInvocations
  /\ IF AlreadyCompleted(c)
       THEN /\ calls' = [calls EXCEPT ![c].invoked = @ + 1]
            /\ UNCHANGED <<threads, activeProcesses, history, events, nCalls>>
       ELSE Complete(c, Call(c).pendingLines)
  /\ UNCHANGED <<apiVars, hostVars, mcpVars, promptVars, panelVars>>

\* pendingLines after the flush of claude.on('close')
Flushed(c) ==
  IF Trim(Call(c).buffer) # <<>>
    THEN Append(Call(c).pendingLines, NewTask(Call(c).buffer))
    ELSE Call(c).pendingLines

\* claude.on('close'): 'close' comes after the child has ended, or after
\* 'error' when it failed to spawn.  The handler flushes the buffer and
\* awaits Promise.all(pendingLines); with no task left to wait for it goes
\* on to handleCompletion without another event being handled in between.
ChildClose(c) ==
  /\ Call(c).proc \in {"live", "errored"}
  /\ IF AllResolved(Flushed(c))
       THEN Complete(c, Flushed(c))
       ELSE /\ calls' = [calls EXCEPT ![c].proc = "closed", ![c].pc = "closing",
                                      ![c].pendingLines = Flushed(c)]
            /\ UNCHANGED <<threads, activeProcesses, history, events, nCalls>>
  /\ UNCHANGED <<apiVars, hostVars, mcpVars, promptVars, panelVars>>

\* claude.on('close') after its await: the last per-line task has resolved
HandleCompletion(c) ==
  /\ Call(c).pc = "closing"
  /\ AllResolved(Call(c).pendingLines)
  /\ Complete(c, Call(c).pendingLines)
  /\ UNCHANGED <<apiVars, hostVars, mcpVars, promptVars, panelVars>>

EndEventNull(c, ok) == StreamEndEv(c, FALSE, Call(c).fullResponse)

EndEventAlwaysMessage(c, ok) == StreamEndEv(c, TRUE, Call(c).fullResponse)

\* what handleCompletion sends when fullResponse is not empty: the appended
\* message, or null from the catch block, and the text as fallbackText
EndEvent(c, ok) == StreamEndEv(c, ok, Call(c).fullResponse)

\* handleCompletion after thread.history.append: the append succeeded and
\* the session update follows, or it threw and the catch block runs
AppendResolved(c, ok) ==
  /\ Call(c).pc = "appending"
  /\ IF ok
       THEN /\ history' = [history EXCEPT ![Call(c).thread] = Append(@, AssistantMsg(c))]
            /\ calls' = [calls EXCEPT ![c].pc = "session", ![c].appendOk = "ok"]
            /\ UNCHANGED events
       ELSE /\ events' = Send(c, <<EndEvent(c, FALSE)>>)
            /\ calls' = [calls EXCEPT ![c].pc = "done", ![c].resolved = TRUE,
                                      ![c].appendOk = "failed"]
            /\ UNCHANGED history
  /\ UNCHANGED <<threads, activeProcesses, nCalls>>
  /\ UNCHANGED <<apiVars, hostVars, mcpVars, promptVars, panelVars>>

SessionErrorEndsNull(c, throws) == ~throws

\* whether stream-end carries the appended message after the session update:
\* the inner try block catches what getRecent or appendExchange throws
SessionKeepsMessage(c, throws) == TRUE

\* thread.history.getRecent(2): the last two messages, or fewer
getRecent2(t) ==
  SubSeq(history[t], IF Len(history[t]) > 2 THEN Len(history[t]) - 1 ELSE 1,
         Len(history[t]))

\* messages.find(m => m.role === 'user'): the call whose user message is the
\* first user message of the sequence (0: there is none)
FindUser(messages) ==
  LET users == SelectSeq(messages, LAMBDA m : m.role = "user")
  IN IF users = <<>> THEN 0 ELSE Head(users).call

\* handleCompletion after the session update (getRecent, appendExchange)
\* has returned or thrown: stream-end with the appended message.  exchange
\* is the call whose user message appendExchange was given with fullResponse.
SessionUpdated(c, throws) ==
  /\ Call(c).pc = "session"
  /\ events' = Send(c, <<EndEvent(c, SessionKeepsMessage(c, throws))>>)
  /\ calls' = [calls EXCEPT ![c].pc = "done", ![c].resolved = TRUE,
                            ![c].sessionFailed = throws,
                            ![c].exchange = IF throws THEN 0
                                            ELSE FindUser(getRecent2(Call(c).thread))]
  /\ UNCHANGED <<threads, activeProcesses, history, nCalls>>
  /\ UNCHANGED <<apiVars, hostVars, mcpVars, promptVars, panelVars>>

\* killProcess, for a thread with a registered child (a no-op otherwise)
KillProcess(t) ==
  /\ activeProcesses[t] # 0
  /\ calls' = Signal(calls, activeProcesses[t])
  /\ activeProcesses' = Deregister(t, activeProcesses[t])
  /\ UNCHANGED <<threads, history, events, nCalls>>
  /\ UNCHANGED <<apiVars, hostVars, mcpVars, promptVars, panelVars>>

\* getActiveAgents: the status of a thread
getActiveAgents(t) == IF activeProcesses[t] # 0 THEN "streaming" ELSE "idle"

\* -------------------------------------------------------- the control API

bridgeVars == <<threads, activeProcesses, history, events, calls, nCalls>>

Request(kind, name, valid) ==
  [NoRequest EXCEPT !.kind = kind, !.name = name, !.valid = valid, !.pc = "body"]

\* res.writeHead(status); res.end(JSON.stringify(body)): flag is the body's
\* delivered or created, available its list of names, call the call of
\* injectMessage the handler made
Respond(r, status, flag, available, call) ==
  [requests EXCEPT ![r].pc = "done", ![r].status = status, ![r].flag = flag,
                   ![r].available = available, ![r].call = call]

\* a request arrives and its handler waits for the body (await readBody(req))
Receive(kind, name, valid) ==
  /\ serverUp
  /\ nRequests < MaxRequests
  /\ nRequests' = nRequests + 1
  /\ requests' = [requests EXCEPT ![nRequests + 1] = Request(kind, name, valid)]
  /\ UNCHANGED <<bridgeVars, tabs, pendingThreads, serverUp>>
  /\ UNCHANGED <<hostVars, mcpVars, promptVars, panelVars>>

\* POST /api/agents/<name>/message arrives
PostMessage(name, valid) == Receive("message", name, valid)

\* POST /api/agents arrives
PostAgents(name, valid) == Receive("agents", name, valid)

KnownNamesAndTabs == threads \cup {n \in Names : tabs[n] > 0}

\* the names in the thread maps of the bridges
KnownNames == threads

\* POST /api/agents/<name>/message after the body is read: 400 without
\* message or sender, 404 with the known names when no bridge has the
\* thread, else injectMessage is called, not awaited, and 200 is sent
MessageBodyRead(r) ==
  /\ serverUp
  /\ requests[r].kind = "message" /\ requests[r].pc = "body"
  /\ IF ~requests[r].valid
       THEN /\ requests' = Respond(r, 400, FALSE, {}, 0)
            /\ UNCHANGED bridgeVars
       ELSE IF requests[r].name \notin threads
         THEN /\ requests' = Respond(r, 404, FALSE, KnownNames, 0)
              /\ UNCHANGED bridgeVars
         ELSE /\ injectMessage(requests[r].name)
              /\ requests' = Respond(r, 200, TRUE, {}, nCalls + 1)
  /\ UNCHANGED <<nRequests, tabs, pendingThreads, serverUp>>
  /\ UNCHANGED <<hostVars, mcpVars, promptVars, panelVars>>

Uncaught(c) == Call(c).kind # "inject"

\* targetBridge.injectMessage(...).catch(err => console.error(...)): the
\* rejection is handled
Caught(c) == TRUE

\* sendMessage rejects: the append of the user message throws.  The promise
\* of an injectMessage has the catch handler of the control API.
SendRejects(c) ==
  /\ Call(c).pc = "start"
  /\ calls' = [calls EXCEPT ![c].pc = "rejected"]
  /\ serverUp' = (serverUp /\ Caught(c))
  /\ UNCHANGED <<threads, activeProcesses, history, events, nCalls>>
  /\ UNCHANGED <<requests, nRequests, tabs, pendingThreads>>
  /\ UNCHANGED <<hostVars, mcpVars, promptVars, panelVars>>

\* POST /api/agents after the body is read: 400 without threadName, 200
\* created:false when a bridge has the thread, else the renderer is asked to
\* create the tab (await sendToRenderer)
AgentsBodyRead(r) ==
  /\ serverUp
  /\ requests[r].kind = "agents" /\ requests[r].pc = "body"
  /\ requests' =
       IF ~requests[r].valid THEN Respond(r, 400, FALSE, {}, 0)
       ELSE IF requests[r].name \in threads THEN Respond(r, 200, FALSE, {}, 0)
       ELSE [requests EXCEPT ![r].pc = "renderer", ![r].entry = TRUE,
                             ![r].timer = "set"]
  /\ UNCHANGED <<bridgeVars, nRequests, tabs, pendingThreads, serverUp>>
  /\ UNCHANGED <<hostVars, mcpVars, promptVars, panelVars>>

AlwaysEntry(r) ==
  TRUE

\* pendingWebTabRequests.get(requestId) in the result handler and
\* pendingWebTabRequests.has(requestId) in the timeout: the round trip of
\* request r is pending
HasEntry(r) ==
  requests[r].entry

\* ipcMain.on('janus:web-tab-result'): a pending round trip is removed from
\* the map and resolved with the result, and the handler that awaits it
\* goes on; for any other requestId nothing is done
WebTabResult(r) ==
  IF HasEntry(r)
    THEN [requests[r] EXCEPT !.entry = FALSE, !.resolveCalls = @ + 1,
                             !.value = IF @ = "none" THEN "result" ELSE @,
                             !.pc = IF @ = "renderer" THEN "result" ELSE @,
                             !.results = @ + 1]
    ELSE [requests[r] EXCEPT !.results = @ + 1]

\* the callback of setTimeout(..., 5000): a round trip still pending is
\* removed from the map and resolved with null
TimerFires(r) ==
  IF HasEntry(r)
    THEN [requests[r] EXCEPT !.entry = FALSE, !.resolveCalls = @ + 1,
                             !.value = IF @ = "none" THEN "null" ELSE @,
                             !.timer = "fired"]
    ELSE [requests[r] EXCEPT !.timer = "fired"]

\* the renderer handles 'janus:create-cumulus-tab': it creates a chat tab
\* for the name, whose mount calls 'cumulus:create-thread', and sends the
\* result back; it may do so after sendToRenderer has timed out
RendererCreatesTab(r) ==
  /\ requests[r].kind = "agents" /\ ~requests[r].tabMade
  /\ \/ requests[r].pc = "renderer"
     \/ requests[r].pc = "done" /\ requests[r].status = 500
  /\ tabs' = [tabs EXCEPT ![requests[r].name] = @ + 1]
  /\ pendingThreads' = [pendingThreads EXCEPT ![requests[r].name] = @ + 1]
  /\ requests' = [requests EXCEPT ![r] = [WebTabResult(r) EXCEPT !.tabMade = TRUE]]
  /\ UNCHANGED <<bridgeVars, nRequests, serverUp>>
  /\ UNCHANGED <<hostVars, mcpVars, promptVars, panelVars>>

\* POST /api/agents after sendToRenderer resolved with the result: 201
AgentsResponds(r) ==
  /\ serverUp
  /\ requests[r].kind = "agents" /\ requests[r].pc = "result"
  /\ requests' = Respond(r, 201, TRUE, {}, 0)
  /\ UNCHANGED <<bridgeVars, nRequests, tabs, pendingThreads, serverUp>>
  /\ UNCHANGED <<hostVars, mcpVars, promptVars, panelVars>>

\* sendToRenderer resolves with null after 5 s: 500
RendererTimeout(r) ==
  /\ serverUp
  /\ requests[r].kind = "agents" /\ requests[r].pc = "renderer"
  /\ requests[r].timer = "set"
  /\ requests' = [requests EXCEPT ![r] =
       [TimerFires(r) EXCEPT !.pc = "done", !.status = 500, !.flag = FALSE,
                             !.available = {}, !.call = 0]]
  /\ UNCHANGED <<bridgeVars, nRequests, tabs, pendingThreads, serverUp>>
  /\ UNCHANGED <<hostVars, mcpVars, promptVars, panelVars>>

\* the 5 s of a round trip that the result has resolved are over
LateTimeout(r) ==
  /\ requests[r].kind = "agents" /\ requests[r].pc # "renderer"
  /\ requests[r].timer = "set"
  /\ requests' = [requests EXCEPT ![r] = TimerFires(r)]
  /\ UNCHANGED <<bridgeVars, nRequests, tabs, pendingThreads, serverUp>>
  /\ UNCHANGED <<hostVars, mcpVars, promptVars, panelVars>>

\* the renderer sends 'janus:web-tab-result' for a requestId once more
DuplicateResult(r) ==
  /\ requests[r].kind = "agents" /\ requests[r].tabMade
  /\ requests[r].results < MaxResults
  /\ requests' = [requests EXCEPT ![r] = WebTabResult(r)]
  /\ UNCHANGED <<bridgeVars, nRequests, tabs, pendingThreads, serverUp>>
  /\ UNCHANGED <<hostVars, mcpVars, promptVars, panelVars>>

\* the user opens a chat tab in the window: createCumulusTab gives it a name
\* no tab has, and its mount calls 'cumulus:create-thread'
UiTab(name) ==
  /\ tabs[name] = 0
  /\ tabs' = [tabs EXCEPT ![name] = @ + 1]
  /\ pendingThreads' = [pendingThreads EXCEPT ![name] = @ + 1]
  /\ UNCHANGED <<bridgeVars, requests, nRequests, serverUp>>
  /\ UNCHANGED <<hostVars, mcpVars, promptVars, panelVars>>

\* ipcMain.handle('cumulus:create-thread'): getOrCreateThread
CreateThread(name) ==
  /\ pendingThreads[name] > 0
  /\ pendingThreads' = [pendingThreads EXCEPT ![name] = @ - 1]
  /\ threads' = threads \cup {name}
  /\ UNCHANGED <<activeProcesses, history, events, calls, nCalls>>
  /\ UNCHANGED <<requests, nRequests, tabs, serverUp>>
  /\ UNCHANGED <<hostVars, mcpVars, promptVars, panelVars>>

\* a request arrives whose handling throws: the agent name has a malformed
\* percent-escape (decodeURIComponent) or the body is the JSON text null
\* (body.threadName, const { message, sender } = body)
PostBad(kind, name) ==
  /\ serverUp
  /\ nRequests < MaxRequests
  /\ nRequests' = nRequests + 1
  /\ requests' = [requests EXCEPT ![nRequests + 1] =
                    [Request(kind, name, FALSE) EXCEPT !.pc = "bad"]]
  /\ UNCHANGED <<bridgeVars, tabs, pendingThreads, serverUp>>
  /\ UNCHANGED <<hostVars, mcpVars, promptVars, panelVars>>

\* the async request handler throws: nothing catches the exception, the
\* promise the handler returned rejects and no response is written; the
\* unhandled rejection ends the host process or not, as the runtime is set up
HandlerThrows(r, crash) ==
  /\ serverUp
  /\ requests[r].pc = "bad"
  /\ requests' = [requests EXCEPT ![r].pc = "unanswered"]
  /\ serverUp' = ~crash
  /\ UNCHANGED <<bridgeVars, nRequests, tabs, pendingThreads>>
  /\ UNCHANGED <<hostVars, mcpVars, promptVars, panelVars>>

\* -------------------------------------------------- the agent tool server

\* a request of apiRequest arrives at the control API
Post(kind, name) ==
  /\ nRequests' = nRequests + 1
  /\ requests' = [requests EXCEPT ![nRequests + 1] = Request(kind, name, TRUE)]

\* the result of a call of send_to_agent
Result(k, delivered, error) ==
  [tools EXCEPT ![k].pc = "done", ![k].delivered = delivered, ![k].error = error]

\* the request call k waits for has its response
Answered(k) == requests[tools[k].req].pc = "done"

NeverSelf(self, target) == FALSE

\* target === AGENT_NAME
IsSelf(self, target) == target = self

\* send_to_agent, called by the agent self, up to its first await: without
\* target or message and for its own name it returns at once, else it
\* posts the message
SendToAgent(self, target, hasMessage) ==
  /\ serverUp
  /\ self \in threads
  /\ nTools < MaxTools
  /\ nRequests < MaxRequests + 1
  /\ nTools' = nTools + 1
  /\ LET k == nTools + 1
         call == [NoTool EXCEPT !.self = self, !.target = target,
                                !.hasMessage = hasMessage]
     IN IF ~hasMessage
          THEN /\ tools' = [tools EXCEPT ![k] =
                    [call EXCEPT !.pc = "done", !.error = "Missing target or message"]]
               /\ UNCHANGED <<requests, nRequests>>
          ELSE IF IsSelf(self, target)
            THEN /\ tools' = [tools EXCEPT ![k] =
                      [call EXCEPT !.pc = "done", !.error = "Cannot send message to self"]]
                 /\ UNCHANGED <<requests, nRequests>>
            ELSE /\ tools' = [tools EXCEPT ![k] =
                      [call EXCEPT !.pc = "posted", !.req = nRequests + 1, !.reqs = 1]]
                 /\ Post("message", target)
  /\ UNCHANGED <<bridgeVars, tabs, pendingThreads, serverUp, hostVars, promptVars, panelVars>>

\* send_to_agent after the first POST: a 'not found' makes it post to
\* /api/agents, any other response is its result
ToolMessageResponse(k) ==
  /\ tools[k].pc = "posted" /\ Answered(k)
  /\ IF requests[tools[k].req].status = 404
       THEN /\ nRequests < MaxRequests + 1
            /\ tools' = [tools EXCEPT ![k].pc = "creating", ![k].req = nRequests + 1,
                                      ![k].reqs = @ + 1, ![k].creates = @ + 1,
                                      ![k].createReq = nRequests + 1]
            /\ Post("agents", tools[k].target)
       ELSE /\ tools' = Result(k, requests[tools[k].req].flag, "none")
            /\ UNCHANGED <<requests, nRequests>>
  /\ UNCHANGED <<bridgeVars, tabs, pendingThreads, serverUp, hostVars, promptVars, panelVars, nTools>>

CreateNeverFails(response) ==
  FALSE

\* createResult.error: the response of POST /api/agents carries an error
CreateFailed(response) ==
  response.status = 500

\* send_to_agent after the POST to /api/agents: an error is its result, else
\* it waits 2 s
ToolCreateResponse(k) ==
  /\ tools[k].pc = "creating" /\ Answered(k)
  /\ tools' = IF CreateFailed(requests[tools[k].req])
                THEN Result(k, FALSE, "Failed to auto-create agent tab")
                ELSE [tools EXCEPT ![k].pc = "waiting"]
  /\ UNCHANGED <<bridgeVars, apiVars, hostVars, promptVars, panelVars, nTools>>

\* the 2 s are over: the message is posted again
ToolRetry(k) ==
  /\ tools[k].pc = "waiting"
  /\ nRequests < MaxRequests + 1
  /\ tools' = [tools EXCEPT ![k].pc = "retrying", ![k].req = nRequests + 1,
                            ![k].reqs = @ + 1]
  /\ Post("message", tools[k].target)
  /\ UNCHANGED <<bridgeVars, tabs, pendingThreads, serverUp, hostVars, promptVars, panelVars, nTools>>

\* send_to_agent after the second POST: the response is its result
ToolRetryResponse(k) ==
  /\ tools[k].pc = "retrying" /\ Answered(k)
  /\ tools' = IF requests[tools[k].req].status = 404
                THEN Result(k, FALSE, "not found")
                ELSE Result(k, requests[tools[k].req].flag, "none")
  /\ UNCHANGED <<bridgeVars, apiVars, hostVars, promptVars, panelVars, nTools>>

\* ------------------------------------------- the threads and their files

\* getOrCreateThread, from the call to its first await: a name in the map
\* gets its Thread at once, for any other name the call goes on to
\* loadCumulus and session.initialize
GetOrCreateThread(name) ==
  /\ ~destroyed
  /\ nCreations < MaxCreations
  /\ nCreations' = nCreations + 1
  /\ creations' = [creations EXCEPT ![nCreations + 1] =
       IF threadMap[name] # 0
         THEN [NoCreation EXCEPT !.name = name, !.pc = "returned",
                                 !.thread = threadMap[name]]
         ELSE [NoCreation EXCEPT !.name = name, !.pc = "initializing"]]
  /\ UNCHANGED <<threadMap, files, now, listenState, listenPort, busy, destroyed>>
  /\ UNCHANGED <<bridgeVars, apiVars, mcpVars, promptVars, panelVars>>

\* path.join(CUMULUS_DIR, `mcp-config-${Date.now()}.json`): the path is
\* told by the millisecond
ConfigPath(ms) == ms

\* JANUS_API_URL: 'http://localhost:9223'
ConfigApiPort == 9223

\* getOrCreateThread after its awaits: the stores are made, generateMcpConfig
\* writes the tool-config file and the Thread is set in the map
ThreadInitialized(k) ==
  /\ creations[k].pc = "initializing"
  /\ files' = files \cup {ConfigPath(now)}
  /\ threadMap' = [threadMap EXCEPT ![creations[k].name] = k]
  /\ threads' = threads \cup {creations[k].name}
  /\ creations' = [creations EXCEPT ![k].pc = "returned", ![k].thread = k,
                                    ![k].created = TRUE,
                                    ![k].path = ConfigPath(now),
                                    ![k].apiPort = ConfigApiPort]
  /\ UNCHANGED <<nCreations, now, listenState, listenPort, busy, destroyed>>
  /\ UNCHANGED <<activeProcesses, history, events, calls, nCalls>>
  /\ UNCHANGED <<apiVars, mcpVars, promptVars, panelVars>>

\* a millisecond passes
Tick ==
  /\ now <= MaxNow
  /\ now' = now + 1
  /\ UNCHANGED <<creations, nCreations, threadMap, files,
                 listenState, listenPort, busy, destroyed>>
  /\ UNCHANGED <<bridgeVars, apiVars, mcpVars, promptVars, panelVars>>

\* the names in the map
Mapped == {t \in Names : threadMap[t] # 0}

\* destroy: the registered children are killed, the tool-config file of
\* every Thread in the map is deleted, both maps are cleared
Destroy ==
  /\ ~destroyed
  /\ destroyed' = TRUE
  /\ calls' = [c \in CallIds |->
                IF \E t \in Names : activeProcesses[t] = c
                  THEN [calls[c] EXCEPT !.signalled = TRUE] ELSE calls[c]]
  /\ activeProcesses' = [t \in Names |-> 0]
  /\ files' = files \ {creations[threadMap[t]].path : t \in Mapped}
  /\ threadMap' = [t \in Names |-> 0]
  /\ threads' = {}
  /\ UNCHANGED <<creations, nCreations, now, listenState, listenPort, busy>>
  /\ UNCHANGED <<history, events, nCalls>>
  /\ UNCHANGED <<apiVars, mcpVars, promptVars, panelVars>>

\* ------------------------------------------------ the control API's port

\* another process takes a port before the control API starts
PortTaken(p) ==
  /\ listenState = "off"
  /\ p \notin busy
  /\ busy' = busy \cup {p}
  /\ UNCHANGED <<creations, nCreations, threadMap, files, now,
                 listenState, listenPort, destroyed>>
  /\ UNCHANGED <<bridgeVars, apiVars, mcpVars, promptVars, panelVars>>

\* startHttpApi: server.listen(HTTP_API_PORT, '127.0.0.1')
StartHttpApi ==
  /\ listenState = "off"
  /\ listenState' = "trying"
  /\ listenPort' = HTTP_API_PORT
  /\ UNCHANGED <<creations, nCreations, threadMap, files, now, busy, destroyed>>
  /\ UNCHANGED <<bridgeVars, apiVars, mcpVars, promptVars, panelVars>>

\* the port is free: the server listens
Listening ==
  /\ listenState = "trying"
  /\ listenPort \notin busy
  /\ listenState' = "listening"
  /\ UNCHANGED <<creations, nCreations, threadMap, files, now,
                 listenPort, busy, destroyed>>
  /\ UNCHANGED <<bridgeVars, apiVars, mcpVars, promptVars, panelVars>>

NextPort == listenPort + 1

\* server.listen(HTTP_API_PORT + 1, '127.0.0.1')
FallbackPort == HTTP_API_PORT + 1

\* server.on('error') with err.code 'EADDRINUSE': the port is held
ListenError ==
  /\ listenState = "trying"
  /\ listenPort \in busy
  /\ listenPort' = FallbackPort
  /\ UNCHANGED <<creations, nCreations, threadMap, files, now,
                 listenState, busy, destroyed>>
  /\ UNCHANGED <<bridgeVars, apiVars, mcpVars, promptVars, panelVars>>

\* ------------------------------------------------------ the specifications
LineA == Assistant(<<TextBlock(<<"a">>)>>)
LineB == Assistant(<<TextBlock(<<"b", NL>>)>>)
LineBA == Assistant(<<TextBlock(<<"b", NL>>), TextBlock(<<"a">>)>>)
LineTool == Assistant(<<ToolUseBlock, TextBlock(<<>>)>>)
LineUser == UserLine(<<TextBlock(<<"u">>), ToolResultBlock>>)

\* the chunks a child writes in Spec: one whole line
SpecChunks == {<<LineA, NLsym>>}

\* Spec: the calls of one supervisor on one thread, interleaved.  What the
\* retrieval, the session update and a failed spawn can throw is varied in
\* SpecTurn.
Next ==
  \/ \E t \in Threads : SendMessage(t, MaxCalls)
  \/ \E t \in Threads : InjectMessage(t)
  \/ \E t \in Threads : KillProcess(t)
  \/ \E c \in CallIds : GraceElapsed(c)
  \/ \E c \in CallIds : AppendUser(c)
  \/ \E c \in CallIds : Retrieve(c, FALSE)
  \/ \E c \in CallIds : Spawn(c)
  \/ \E c \in CallIds : SpawnFails(c, "spawn claude ENOENT")
  \/ \E c \in CallIds, chunk \in SpecChunks : StdoutData(c, chunk, MaxData)
  \/ \E c \in CallIds : StderrData(c, TRUE, MaxData)
  \/ \E c \in CallIds : \E i \in DOMAIN Call(c).pendingLines : LineDone(c, i)
  \/ \E c \in CallIds : ChildClose(c)
  \/ \E c \in CallIds : HandleCompletion(c)
  \/ \E c \in CallIds, ok \in BOOLEAN : AppendResolved(c, ok)
  \/ \E c \in CallIds : SessionUpdated(c, FALSE)

Spec == Init /\ [][Next]_vars

\* the chunks the child writes in SpecTurn: whole lines, a line without its
\* newline, a newline alone, two lines at once, and a line with a character
\* of two bytes, whole and cut between the two bytes
TurnLines == {LineA, LineB, LineBA, LineTool, LineUser, ResultLine, Junk, UnknownLine}
TurnChunks ==
  {<<l, NLsym>> : l \in TurnLines} \cup {<<LineA>>, <<NLsym>>, <<SPsym, NLsym>>,
   <<LineB, NLsym, LineA, NLsym>>,
   <<TextOpen, LeadByte, ContByte, TextClose, NLsym>>,
   <<TextOpen, LeadByte>>, <<ContByte, TextClose, NLsym>>}

\* one call of sendMessage, with every way its turn can go, for a child that
\* writes chunks of the set given
TurnStep(chunks) ==
  \/ \E t \in Threads : SendMessage(t, 1)
  \/ \E t \in Threads : KillProcess(t)
  \/ AppendUser(1)
  \/ \E throws \in BOOLEAN : Retrieve(1, throws)
  \/ Spawn(1)
  \/ \E message \in SpawnErrors : SpawnFails(1, message)
  \/ \E chunk \in chunks : StdoutData(1, chunk, MaxTurnData)
  \/ \E enoent \in BOOLEAN : StderrData(1, enoent, MaxTurnData)
  \/ \E i \in DOMAIN Call(1).pendingLines : LineDone(1, i)
  \/ ChildClose(1)
  \/ HandleCompletion(1)
  \/ \E ok \in BOOLEAN : AppendResolved(1, ok)
  \/ \E throws \in BOOLEAN : SessionUpdated(1, throws)

\* SpecTurn: one turn, for every chunk of TurnChunks
TurnNext == TurnStep(TurnChunks)

SpecTurn == Init /\ [][TurnNext]_vars

\* the chunks of FairTurn: a line, a line without its newline, a line
\* without text
LiveChunks == {<<LineA, NLsym>>, <<LineA>>, <<LineTool, NLsym>>}

LiveNext == TurnStep(LiveChunks)

\* the child ends, the awaited calls return and the scheduled tasks run
TurnFairness ==
  /\ WF_vars(AppendUser(1))
  /\ WF_vars(\E throws \in BOOLEAN : Retrieve(1, throws))
  /\ WF_vars(Spawn(1) \/ \E message \in SpawnErrors : SpawnFails(1, message))
  /\ WF_vars(\E i \in DOMAIN Call(1).pendingLines : LineDone(1, i))
  /\ WF_vars(ChildClose(1))
  /\ WF_vars(HandleCompletion(1))
  /\ WF_vars(\E ok \in BOOLEAN : AppendResolved(1, ok))
  /\ WF_vars(\E throws \in BOOLEAN : SessionUpdated(1, throws))

\* FairTurn: one turn that goes on to its end
FairTurn == Init /\ [][LiveNext]_vars /\ TurnFairness

\* the chunks of SpecThrown: lines with text, two at once, and a line
\* without text
ThrownChunks ==
  {<<LineA, NLsym>>, <<LineB, NLsym, LineA, NLsym>>, <<LineTool, NLsym>>}

\* SpecThrown: one turn whose stream processor may throw on any line
ThrownNext ==
  \/ \E t \in Threads : SendMessage(t, 1)
  \/ AppendUser(1)
  \/ Retrieve(1, FALSE)
  \/ Spawn(1)
  \/ \E chunk \in ThrownChunks : StdoutData(1, chunk, MaxTurnData)
  \/ \E i \in DOMAIN Call(1).pendingLines : LineDone(1, i)
  \/ \E i \in DOMAIN Call(1).pendingLines : LineThrown(1, i)
  \/ ChildClose(1)
  \/ HandleCompletion(1)
  \/ AppendResolved(1, TRUE)
  \/ SessionUpdated(1, FALSE)

SpecThrown == Init /\ [][ThrownNext]_vars

\* the attachments a call is given
AttachmentSets ==
  {<<>>, <<"image">>, <<"unreadable">>, <<"file">>, <<"image", "file">>,
   <<"image", "image">>, <<"unreadable", "image">>}

\* SpecAttach: one turn of a message with attachments
AttachNext ==
  \/ \E t \in Threads, attachments \in AttachmentSets :
       SendWithAttachments(t, 1, attachments)
  \/ \E t \in Threads : KillProcess(t)
  \/ AppendUser(1)
  \/ Retrieve(1, FALSE)
  \/ Spawn(1)
  \/ SpawnFails(1, "spawn claude ENOENT")
  \/ \E chunk \in LiveChunks : StdoutData(1, chunk, MaxTurnData)
  \/ \E i \in DOMAIN Call(1).pendingLines : LineDone(1, i)
  \/ ChildClose(1)
  \/ HandleCompletion(1)
  \/ AppendResolved(1, TRUE)
  \/ SessionUpdated(1, FALSE)

SpecAttach == Init /\ [][AttachNext]_vars

\* SpecHost: the threads of a supervisor and their tool-config files
HostNext ==
  \/ \E name \in Names : GetOrCreateThread(name)
  \/ \E k \in CreationIds : ThreadInitialized(k)
  \/ Tick
  \/ Destroy

SpecHost == Init /\ [][HostNext]_vars

\* FairRender: the round trips of POST /api/agents to the renderer, whose
\* results may come late or twice; a timer that is set fires
RenderNext ==
  \/ \E name \in Names : PostAgents(name, TRUE)
  \/ \E r \in ReqIds : AgentsBodyRead(r)
  \/ \E r \in ReqIds : RendererCreatesTab(r)
  \/ \E r \in ReqIds : AgentsResponds(r)
  \/ \E r \in ReqIds : RendererTimeout(r)
  \/ \E r \in ReqIds : LateTimeout(r)
  \/ \E r \in ReqIds : DuplicateResult(r)

RenderFairness ==
  \A r \in ReqIds : WF_vars(RendererTimeout(r))

FairRender == Init /\ [][RenderNext]_vars /\ RenderFairness

\* ------------------------------------------------------- the chat panel

\* an entry of the message list: kind is "optimistic" (the user's text as
\* sent), "user", "assistant", "partial" (frozen streamed text) or
\* "synthetic" (fallback text), call the turn it belongs to (0 for a
\* partial)
Entry(kind, c) == [kind |-> kind, call |-> c]

HasEntryOf(messages, kind, c) ==
  \E i \in DOMAIN messages : messages[i] = Entry(kind, c)

\* prev.findIndex(m => m.id.startsWith('_opt_') && m.role === 'user')
OptimisticIdx(messages) ==
  LET opt == {i \in DOMAIN messages : messages[i].kind = "optimistic"}
  IN IF opt = {} THEN 0 ELSE CHOOSE i \in opt : \A j \in opt : i <= j

\* api.onMessage: a message not in the list takes the place of the first
\* optimistic user message, or is appended
onMessage(p, ev) ==
  IF HasEntryOf(p.messages, "user", ev.call) THEN p
  ELSE IF OptimisticIdx(p.messages) # 0
    THEN [p EXCEPT !.messages[OptimisticIdx(p.messages)] = Entry("user", ev.call)]
  ELSE [p EXCEPT !.messages = Append(@, Entry("user", ev.call))]

\* api.onStreamChunk
onStreamChunk(p, ev) ==
  [p EXCEPT !.isStreaming = TRUE, !.error = FALSE,
            !.streamBuffer = @ \cup {ev.call}]

\* api.onStreamSegment
onStreamSegment(p, ev) ==
  [p EXCEPT !.streamSegments = @ \cup {ev.call}]

\* api.onError
onError(p, ev) ==
  [p EXCEPT !.error = TRUE]

\* the streaming state cleared
Cleared(p) ==
  [p EXCEPT !.isStreaming = FALSE, !.streamBuffer = {}, !.streamSegments = {}]

\* if (streamCapturedRef.current)
Captured(p) ==
  p.streamCaptured

\* api.onStreamEnd: an end after an interjection is suppressed; any other
\* adds the message it carries unless the list has it, or a synthetic
\* message of the fallback text or the buffer
onStreamEnd(p, ev) ==
  IF Captured(p)
    THEN [Cleared(p) EXCEPT !.streamCaptured = FALSE,
                            !.suppressed = @ \cup {ev.call}]
  ELSE IF ev.message
    THEN IF HasEntryOf(p.messages, "assistant", ev.call) THEN Cleared(p)
         ELSE [Cleared(p) EXCEPT !.messages = Append(@, Entry("assistant", ev.call))]
  ELSE IF ev.text # <<>> \/ p.streamBuffer # {}
    THEN [Cleared(p) EXCEPT !.messages = Append(@, Entry("synthetic", ev.call))]
  ELSE Cleared(p)

\* the subscriber of the event's channel
Handle(p, ev) ==
  IF ev.type = "message" THEN onMessage(p, ev)
  ELSE IF ev.type = "stream-chunk" THEN onStreamChunk(p, ev)
  ELSE IF ev.type = "stream-segment" THEN onStreamSegment(p, ev)
  ELSE IF ev.type = "stream-end" THEN onStreamEnd(p, ev)
  ELSE onError(p, ev)

\* the panel handles the next event of call c
PanelReceive(c) ==
  /\ panel.read[c] < Len(events[c])
  /\ panel' = [Handle(panel, events[c][panel.read[c] + 1])
                 EXCEPT !.read[c] = @ + 1]
  /\ UNCHANGED <<bridgeVars, apiVars, hostVars, mcpVars, promptVars>>

\* handleSend up to api.sendMessage: while a response is streaming the
\* streamed text is frozen as a partial message, the streaming state is
\* cleared and streamCapturedRef is set
Interjected(p, c) ==
  IF p.isStreaming
    THEN [Cleared(p) EXCEPT
            !.streamCaptured = TRUE,
            !.messages = IF p.streamBuffer # {}
                           THEN Append(@, Entry("partial", 0)) ELSE @,
            !.frozen = @ \cup p.streamBuffer,
            !.interjected = @ \cup {c}]
    ELSE p

\* handleSend: the user sends a message in the panel of thread t; the call
\* of sendMessage it makes is the next one
HandleSend(t) ==
  /\ sendMessage(t, MaxCalls)
  /\ panel' = [Interjected([panel EXCEPT !.error = FALSE], nCalls + 1)
                 EXCEPT !.messages = Append(@, Entry("optimistic", nCalls + 1))]
  /\ UNCHANGED <<apiVars, hostVars, mcpVars, promptVars>>

\* the panel has handled every event sent
Delivered ==
  \A c \in CallIds : panel.read[c] = Len(events[c])

\* SpecPanel: the turns the user sends from the panel of a thread; the
\* panel handles the events in the order they are sent
PanelNext ==
  \/ \E t \in Threads : HandleSend(t)
  \/ \E c \in CallIds : PanelReceive(c)
  \/ \E c \in CallIds : Delivered /\ AppendUser(c)
  \/ \E c \in CallIds : Delivered /\ Retrieve(c, FALSE)
  \/ \E c \in CallIds : Delivered /\ Spawn(c)
  \/ \E c \in CallIds : Delivered /\ StdoutData(c, <<LineA, NLsym>>, MaxData)
  \/ \E c \in CallIds : \E i \in DOMAIN Call(c).pendingLines :
       Delivered /\ LineDone(c, i)
  \/ \E c \in CallIds : Delivered /\ ChildClose(c)
  \/ \E c \in CallIds : Delivered /\ HandleCompletion(c)
  \/ \E c \in CallIds : Delivered /\ AppendResolved(c, TRUE)
  \/ \E c \in CallIds : Delivered /\ SessionUpdated(c, FALSE)

SpecPanel == Init /\ [][PanelNext]_vars

\* SpecAgain: one turn whose finalizer may be invoked again at any moment
\* after its first invocation
AgainNext ==
  \/ LiveNext
  \/ HandleCompletionAgain(1)

SpecAgain == Init /\ [][AgainNext]_vars

\* a call made while the window is open
SendWhileOpen(t, max) ==
  /\ ~destroyed
  /\ SendMessage(t, max)

\* SpecDestroy: the calls of a supervisor whose window is closed at any
\* moment
DestroyNext ==
  \/ \E t \in Threads : SendWhileOpen(t, MaxCalls)
  \/ \E c \in CallIds : AppendUser(c)
  \/ \E c \in CallIds : Retrieve(c, FALSE)
  \/ \E c \in CallIds : Spawn(c)
  \/ \E c \in CallIds : StdoutData(c, <<LineA, NLsym>>, MaxData)
  \/ \E c \in CallIds : \E i \in DOMAIN Call(c).pendingLines : LineDone(c, i)
  \/ \E c \in CallIds : ChildClose(c)
  \/ \E c \in CallIds : HandleCompletion(c)
  \/ \E c \in CallIds : AppendResolved(c, TRUE)
  \/ \E c \in CallIds : SessionUpdated(c, FALSE)
  \/ Destroy

SpecDestroy == Init /\ [][DestroyNext]_vars

\* SpecListen: the port of the control API and the tool-config files that
\* name it
ListenNext ==
  \/ \E p \in Ports : PortTaken(p)
  \/ StartHttpApi
  \/ Listening
  \/ ListenError
  \/ \E name \in Names : GetOrCreateThread(name)
  \/ \E k \in CreationIds : ThreadInitialized(k)

SpecListen == Init /\ [][ListenNext]_vars

\* a server.listen ends: the server listens or its 'error' is emitted
ListenFairness == WF_vars(Listening) /\ WF_vars(ListenError)

FairListen == SpecListen /\ ListenFairness

\* SpecApi: the requests to the control API, the renderer's tabs and the
\* turns of the injected messages, whose children write nothing
ApiNext ==
  \/ \E t \in Threads : UiTab(t)
  \/ \E name \in Names, valid \in BOOLEAN : PostMessage(name, valid)
  \/ \E name \in Names, valid \in BOOLEAN : PostAgents(name, valid)
  \/ \E r \in ReqIds : MessageBodyRead(r)
  \/ \E r \in ReqIds : AgentsBodyRead(r)
  \/ \E r \in ReqIds : RendererCreatesTab(r)
  \/ \E r \in ReqIds : AgentsResponds(r)
  \/ \E r \in ReqIds : RendererTimeout(r)
  \/ \E name \in Names : CreateThread(name)
  \/ \E c \in CallIds : SendRejects(c)
  \/ \E c \in CallIds : GraceElapsed(c)
  \/ \E c \in CallIds : AppendUser(c)
  \/ \E c \in CallIds : Retrieve(c, FALSE)
  \/ \E c \in CallIds : Spawn(c)
  \/ \E c \in CallIds : SpawnFails(c, "spawn claude ENOENT")
  \/ \E c \in CallIds : ChildClose(c)

SpecApi == Init /\ [][ApiNext]_vars

\* SpecThrow: the requests of SpecApi and those whose handling throws
ThrowNext ==
  \/ ApiNext
  \/ \E kind \in {"message", "agents"}, name \in Names : PostBad(kind, name)
  \/ \E r \in ReqIds, crash \in BOOLEAN : HandlerThrows(r, crash)

SpecThrow == Init /\ [][ThrowNext]_vars

\* SpecMcp: the calls of send_to_agent, the requests they make and the tabs
\* and threads those create
McpNext ==
  \/ \E t \in Threads : UiTab(t)
  \/ \E name \in Names : CreateThread(name)
  \/ \E self \in Names, target \in Names, hasMessage \in BOOLEAN :
       SendToAgent(self, target, hasMessage)
  \/ \E k \in ToolIds : ToolMessageResponse(k)
  \/ \E k \in ToolIds : ToolCreateResponse(k)
  \/ \E k \in ToolIds : ToolRetry(k)
  \/ \E k \in ToolIds : ToolRetryResponse(k)
  \/ \E r \in ReqIds : MessageBodyRead(r)
  \/ \E r \in ReqIds : AgentsBodyRead(r)
  \/ \E r \in ReqIds : RendererCreatesTab(r)
  \/ \E r \in ReqIds : AgentsResponds(r)
  \/ \E r \in ReqIds : RendererTimeout(r)

SpecMcp == Init /\ [][McpNext]_vars

\* ------------------------------------------------------------- the claims
Last(s) == s[Len(s)]

\* the segments sent for a call, in the order they were sent
SentSegments(c) ==
  LET evs == SelectSeq(events[c], LAMBDA e : e.type = "stream-segment")
  IN  [i \in 1..Len(evs) |-> evs[i].seg]

EndsWithStreamEnd(c) ==
  /\ Count(c, "stream-end") = 1
  /\ Last(events[c]).type = "stream-end"

LiveChildren(t) == {c \in CallIds : Call(c).thread = t /\ Call(c).proc = "live"}

\* C1: at every instant a thread has at most one live child (spawned, not
\* yet exited), whatever the interleaving of the calls.
C1_AtMostOneLive == \A t \in Threads : Cardinality(LiveChildren(t)) <= 1

C3_ChunksBeforeEnd ==
  \A c \in CallIds :
    /\ Count(c, "stream-end") > 0 => Last(events[c]).type = "stream-end"
    /\ Call(c).completed =>
         \A i \in DOMAIN Call(c).pendingLines : Call(c).pendingLines[i].done
    /\ Count(c, "stream-end") > 0 => Last(events[c]).text = Call(c).fullResponse

C3_Witness ==
  \E c \in CallIds :
    /\ Call(c).pc = "done"
    /\ Trim(Call(c).buffer) # <<>>
    /\ Len(Call(c).pendingLines) >= 2
    /\ Count(c, "stream-chunk") >= 2
\* the lines of a call whose task has resumed, in the order they were read
RECURSIVE DoneLines(_)
DoneLines(tasks) ==
  IF tasks = <<>> THEN <<>>
  ELSE IF Head(tasks).done /\ Trim(Head(tasks).line) # <<>>
    THEN <<Head(tasks).line>> \o DoneLines(Tail(tasks))
  ELSE DoneLines(Tail(tasks))

RECURSIVE WireSegments(_)
WireSegments(lines) ==
  IF lines = <<>> THEN <<>>
  ELSE parseStreamSegments(Head(lines)) \o WireSegments(Tail(lines))

\* what the lines accumulate when they are handled in the order given
RECURSIVE WireResponse(_, _)
WireResponse(acc, lines) ==
  IF lines = <<>> THEN acc
  ELSE WireResponse(acc \o Join(Addition(acc, extractTextFromStreamLine(Head(lines))), <<>>),
                    Tail(lines))

\* acc := ''; for each text: a separator if acc is non-empty and does not
\* end in a newline, then the text
RECURSIVE Fold(_, _)
Fold(acc, texts) ==
  IF texts = <<>> THEN acc
  ELSE Fold((IF acc # <<>> /\ Last(acc) # NL THEN acc \o Sep ELSE acc) \o Head(texts),
            Tail(texts))

TextsOfSegments(segs) ==
  LET ts == SelectSeq(segs, LAMBDA g : g.type = "text")
  IN  [i \in 1..Len(ts) |-> ts[i].content]

\* C4: within a turn the lines are handled in wire order: the segments sent
\* and the text accumulated are those of the lines read, in the order read,
\* whatever the order in which the per-line tasks resume.
C4_WireOrder ==
  \A c \in CallIds :
    /\ SentSegments(c) = WireSegments(DoneLines(Call(c).pendingLines))
    /\ Call(c).fullResponse = WireResponse(<<>>, DoneLines(Call(c).pendingLines))

\* C5: the content of the assistant message a turn appends is the fold of
\* the Text segments it sent, several text blocks of one line included.
C5_ContentIsFold ==
  \A c \in CallIds : \A i \in DOMAIN history[Call(c).thread] :
    LET m == history[Call(c).thread][i]
    IN  m.role = "assistant" /\ m.call = c =>
          m.content = Fold(<<>>, TextsOfSegments(SentSegments(c)))

\* C6: the user message's event is the first a turn sends, and it is sent
\* before the turn's child is spawned.
C6_MessageFirst ==
  \A c \in CallIds :
    /\ events[c] # <<>> => events[c][1].type = "message"
    /\ Call(c).proc # "none" => Count(c, "message") = 1
    /\ Count(c, "message") <= 1

C6_Witness ==
  \E c \in CallIds :
    /\ Call(c).kind = "inject"
    /\ Count(c, "error") > 0
    /\ Count(c, "stream-end") > 0

HasUserMessage(c) ==
  \E i \in DOMAIN history[Call(c).thread] :
    history[Call(c).thread][i] = UserMsg(c)

\* C7: injectMessage on a thread with a registered child signals it and
\* deregisters it before the injected message is appended and before the
\* replacement is spawned; on an idle thread it kills nothing.
C7_KillBeforeAppend ==
  /\ [](\A c \in CallIds :
          Call(c).kind = "inject" /\ Call(c).victim # 0 =>
            /\ Call(Call(c).victim).signalled
            /\ activeProcesses[Call(c).thread] # Call(c).victim
            /\ Call(c).pc = "inj_wait" => ~HasUserMessage(c) /\ Call(c).proc = "none")
  /\ [][\A c \in CallIds :
          Call(c).kind = "none" /\ calls'[c].kind = "inject" =>
            LET t == calls'[c].thread
                p == activeProcesses[t]
            IN  IF p # 0
                  THEN /\ calls'[c].victim = p
                       /\ calls'[p].signalled
                       /\ activeProcesses'[t] = 0
                       /\ calls'[c].pc = "inj_wait"
                       /\ history' = history
                  ELSE /\ calls'[c].victim = 0
                       /\ calls'[c].pc = "start"
                       /\ activeProcesses' = activeProcesses
                       /\ \A d \in CallIds : calls'[d].signalled = Call(d).signalled]_vars

C7_Witness ==
  \E c \in CallIds :
    /\ Call(c).kind = "inject"
    /\ Call(c).victim # 0
    /\ HasUserMessage(c)
    /\ Call(c).proc = "live"

IsPrefix(p, q) == Len(p) <= Len(q) /\ SubSeq(q, 1, Len(p)) = p

C10_StatusAfterInject ==
  \A c \in CallIds :
    Call(c).kind = "inject" /\ Call(c).victim # 0 =>
      /\ Call(c).pc \in {"inj_wait", "start", "appended"} =>
           getActiveAgents(Call(c).thread) = "idle"
      /\ Call(c).proc \in {"live", "closed"} /\ ~Call(c).signalled /\ ~Call(c).completed =>
           getActiveAgents(Call(c).thread) = "streaming"

\* the assistant messages a call has appended to its thread's history
AssistantsOf(c) ==
  {i \in DOMAIN history[Call(c).thread] :
     /\ history[Call(c).thread][i].role = "assistant"
     /\ history[Call(c).thread][i].call = c}

\* C11: a turn's stream-end carries a message iff the response is non-empty
\* and the append succeeded; then the turn has appended one assistant
\* message, whose content is the response; otherwise it has appended none.
C11_MessageIffAppended ==
  \A c \in CallIds :
    /\ Cardinality(AssistantsOf(c)) <= 1
    /\ \A i \in AssistantsOf(c) : history[Call(c).thread][i] = AssistantMsg(c)
    /\ Count(c, "stream-end") > 0 =>
         /\ Last(events[c]).message <=>
              (Call(c).fullResponse # <<>> /\ Call(c).appendOk = "ok")
         /\ Last(events[c]).message => Cardinality(AssistantsOf(c)) = 1
         /\ ~Last(events[c]).message => AssistantsOf(c) = {}

C11_Witness ==
  \E c, d \in CallIds :
    /\ Count(c, "stream-end") > 0 /\ Last(events[c]).message
    /\ Count(d, "stream-end") > 0 /\ ~Last(events[d]).message

\* C12: when the spawn fails with ENOENT the turn sends its user message's
\* event, one error with the not-found text and then one stream-end with no
\* message and no text, and nothing else; the registration is removed and
\* history holds the user message alone.
C12_SpawnENOENT ==
  /\ [](\A c \in CallIds : IncludesENOENT(Call(c).spawnErr) =>
          /\ activeProcesses[Call(c).thread] = 0
          /\ history[Call(c).thread] = <<UserMsg(c)>>
          /\ IF Call(c).pc = "done"
               THEN events[c] = <<MessageEv(c),
                                  Ev("error", c, <<NotFoundText>>, FALSE, NoSeg),
                                  StreamEndEv(c, FALSE, <<>>)>>
               ELSE events[c] = <<MessageEv(c),
                                  Ev("error", c, <<NotFoundText>>, FALSE, NoSeg)>>)
  /\ \A c \in CallIds :
       IncludesENOENT(Call(c).spawnErr) ~> Call(c).pc = "done"

C12_Witness ==
  \E c \in CallIds : IncludesENOENT(Call(c).spawnErr) /\ Call(c).pc = "done"

\* C13: when the append of the assistant message fails the turn sends one
\* stream-end, with no message and the response as text; the promise is
\* resolved, the thread deregistered, and history has no assistant message.
C13_AppendFailure ==
  \A c \in CallIds : Call(c).appendOk = "failed" =>
    /\ Count(c, "stream-end") = 1
    /\ Last(events[c]) = StreamEndEv(c, FALSE, Call(c).fullResponse)
    /\ Call(c).fullResponse # <<>>
    /\ Call(c).resolved
    /\ activeProcesses[Call(c).thread] = 0
    /\ AssistantsOf(c) = {}

C13_Witness ==
  \E c \in CallIds :
    /\ Call(c).appendOk = "failed"
    /\ Count(c, "stream-chunk") >= 2
    /\ ~Call(c).signalled

\* C14: when the session update throws, the assistant message stays in
\* history and the turn sends one stream-end, with that message and the
\* response as text.
C14_SessionFailure ==
  \A c \in CallIds : Call(c).sessionFailed =>
    /\ Count(c, "stream-end") = 1
    /\ Last(events[c]) = StreamEndEv(c, TRUE, Call(c).fullResponse)
    /\ Cardinality(AssistantsOf(c)) = 1
    /\ \A i \in AssistantsOf(c) : history[Call(c).thread][i].content = Call(c).fullResponse
    /\ Call(c).resolved

C14_Witness ==
  \E c \in CallIds : Call(c).sessionFailed /\ Count(c, "stream-segment") > 0

\* C15: when the retrieval throws the turn goes on with an empty retrieved
\* context: the step sends nothing, no error is sent before the spawn, the
\* child is spawned and the turn sends one stream-end in the end.
C15_RetrievalFailure ==
  /\ [](\A c \in CallIds : Call(c).retrievalFailed =>
          /\ Call(c).retrievedContext = <<>>
          /\ Count(c, "stream-end") <= 1
          /\ Call(c).proc = "none" => events[c] = <<MessageEv(c)>>)
  /\ \A c \in CallIds :
       /\ Call(c).retrievalFailed ~> Call(c).proc # "none"
       /\ Call(c).retrievalFailed ~> Count(c, "stream-end") = 1

C15_Witness ==
  \E c \in CallIds :
    /\ Call(c).retrievalFailed
    /\ Call(c).pc = "done"
    /\ Last(events[c]).message

\* the lines the splitter has handed to the decoder, in order
LinesHanded(c) == [i \in DOMAIN Call(c).pendingLines |-> Call(c).pendingLines[i].line]

\* the lines it hands over when the whole stream comes as one chunk
OneChunkLines(stream) ==
  LET pieces == SplitNL(toString(stream), <<>>)
  IN  Front(pieces) \o (IF Trim(Last(pieces)) # <<>> THEN <<Last(pieces)>> ELSE <<>>)

\* C16: once the child has closed, the lines handed to the decoder are those
\* of the whole stream fed as one chunk, however the stream was cut into
\* chunks.
C16_ChunkingInvariant ==
  \A c \in CallIds :
    Call(c).proc = "closed" => LinesHanded(c) = OneChunkLines(Call(c).wire)

\* a line with text that JSON.parse rejects or that has no known shape
IsBadLine(line) ==
  Trim(line) # <<>> /\ (~ParseOk(line) \/ Parsed(line).kind = "unknown")

RECURSIVE GoodLines(_)
GoodLines(lines) ==
  IF lines = <<>> THEN <<>>
  ELSE IF IsBadLine(Head(lines)) THEN GoodLines(Tail(lines))
  ELSE <<Head(lines)>> \o GoodLines(Tail(lines))

\* C17: the task of a malformed line, or of a line of no known shape, sends
\* nothing and leaves the response and the segments as they were; the
\* segments sent are those of the other lines handled, the ones after it
\* included.
C17_BadLineIgnored ==
  /\ [](\A c \in CallIds :
          Len(SentSegments(c)) =
            Len(WireSegments(GoodLines(DoneLines(Call(c).pendingLines)))))
  /\ [][\A c \in CallIds : \A i \in DOMAIN Call(c).pendingLines :
          /\ i \in DOMAIN calls'[c].pendingLines
          /\ ~Call(c).pendingLines[i].done /\ calls'[c].pendingLines[i].done
          /\ IsBadLine(Call(c).pendingLines[i].line)
          => /\ events'[c] = events[c]
             /\ calls'[c].fullResponse = Call(c).fullResponse
             /\ calls'[c].collectedSegments = Call(c).collectedSegments]_vars

C17_Witness ==
  \E c \in CallIds : \E i, j \in DOMAIN Call(c).pendingLines :
    /\ i < j
    /\ IsBadLine(Call(c).pendingLines[i].line) /\ Call(c).pendingLines[i].done
    /\ ~IsBadLine(Call(c).pendingLines[j].line) /\ Call(c).pendingLines[j].done
    /\ Call(c).fullResponse # <<>>
    /\ Call(c).pc = "done"

\* C18: a POST /api/agents/<name>/message with message and sender whose name
\* is in no thread map is answered 404 with delivered false and available
\* exactly the names of the thread maps, and the step changes nothing else:
\* no thread, no call, no process, no message, no event, no tab.
C18_UnknownTarget ==
  [][\A r \in ReqIds :
       ( /\ requests[r].kind = "message" /\ requests[r].pc = "body"
         /\ requests[r].valid /\ requests[r].name \notin threads
         /\ requests'[r] # requests[r] )
       => /\ requests'[r].pc = "done"
          /\ requests'[r].status = 404
          /\ requests'[r].flag = FALSE
          /\ requests'[r].available = threads
          /\ requests'[r].call = 0
          /\ UNCHANGED <<bridgeVars, tabs, pendingThreads, serverUp>>]_vars

C18_Witness ==
  \E r \in ReqIds :
    /\ requests[r].kind = "message" /\ requests[r].pc = "done"
    /\ requests[r].status = 404
    /\ requests[r].name \notin threads
    /\ requests[r].available = {"t1"}
    /\ tabs[requests[r].name] > 0

Response(request) == <<request.status, request.flag, request.available>>

\* C19: a POST /api/agents/<name>/message with message and sender for a name
\* of a thread map is answered 200 with delivered true in the step that calls
\* injectMessage, while the turn of that call has not resolved; a response
\* once sent never changes, and the server stays up whatever becomes of the
\* injection.
C19_FireAndForget ==
  /\ [][\A r \in ReqIds :
         /\ ( /\ requests[r].kind = "message" /\ requests[r].pc = "body"
              /\ requests[r].valid /\ requests[r].name \in threads
              /\ requests'[r] # requests[r] )
            => /\ requests'[r].pc = "done"
               /\ requests'[r].status = 200
               /\ requests'[r].flag = TRUE
               /\ requests'[r].call = nCalls'
               /\ nCalls' = nCalls + 1
               /\ calls'[nCalls'].kind = "inject"
               /\ calls'[nCalls'].thread = requests[r].name
               /\ ~calls'[nCalls'].resolved
         /\ requests[r].pc = "done" => Response(requests'[r]) = Response(requests[r])]_vars
  /\ []serverUp

\* a delivered message whose injection failed afterwards
C19_Witness ==
  /\ serverUp
  /\ \E r \in ReqIds :
       /\ requests[r].kind = "message" /\ requests[r].pc = "done"
       /\ requests[r].status = 200 /\ requests[r].flag
       /\ calls[requests[r].call].pc = "rejected"

\* the POSTs to /api/agents for which the renderer made a tab named n
TabsMadeFor(n) ==
  {r \in ReqIds : requests[r].kind = "agents" /\ requests[r].name = n
                                               /\ requests[r].tabMade}

\* C20: a POST /api/agents for a name of a thread map is answered 200 with
\* created false and creates nothing, and however many POSTs name one
\* threadName, the renderer makes at most one tab for it.
C20_Idempotent ==
  /\ [][\A r \in ReqIds :
         ( /\ requests[r].kind = "agents" /\ requests[r].pc = "body"
           /\ requests[r].valid /\ requests[r].name \in threads
           /\ requests'[r] # requests[r] )
         => /\ requests'[r].status = 200 /\ ~requests'[r].flag
            /\ UNCHANGED <<bridgeVars, tabs, pendingThreads>>]_vars
  /\ [](\A n \in Names : Cardinality(TabsMadeFor(n)) <= 1)

\* the finalizer or the spawn-error handler of call c runs in this step
Finalizes(c) ==
  \/ ~calls[c].completed /\ calls'[c].completed
  \/ calls[c].spawnErr = "none" /\ calls'[c].spawnErr # "none"

\* C27: the step in which the finalizer or the spawn-error handler of a
\* child runs leaves the registration of every other child in place.
C27_OwnRegistrationOnly ==
  [][\A c \in CallIds : Finalizes(c) =>
       \A t \in Names :
         activeProcesses[t] \notin {0, c} => activeProcesses'[t] = activeProcesses[t]]_vars

\* the places of the messages of call c with a role in the history of t
PlacesOf(t, c, role) ==
  {i \in DOMAIN history[t] : history[t][i].call = c /\ history[t][i].role = role}

\* C28: in every history the assistant message of a turn comes after the
\* turn's user message, and no user message of another turn lies between
\* the two.
C28_TurnsNeverInterleave ==
  \A t \in Names : \A c \in CallIds :
    \A a \in PlacesOf(t, c, "assistant") :
      /\ \E u \in PlacesOf(t, c, "user") : u < a
      /\ \A u \in PlacesOf(t, c, "user") :
           ~\E i \in DOMAIN history[t] :
              /\ u < i /\ i < a
              /\ history[t][i].role = "user" /\ history[t][i].call # c

\* the attachments of call c of the kinds given
AttachmentsOf(c, kinds) == SelectSeq(Call(c).attachments, LAMBDA a : a \in kinds)

\* what holds of the stdin and the arguments of every child when the turns
\* that use stdin are those with an attachment of one of the kinds given
StdinIff(kinds) ==
  \A c \in CallIds :
    /\ Call(c).proc = "none" => Call(c).stdin.mode = "none"
    /\ Call(c).proc # "none" =>
         IF AttachmentsOf(c, kinds) = <<>>
           THEN /\ Call(c).stdin = [mode |-> "ignore", written |-> <<>>, ended |-> FALSE]
                /\ Len(Call(c).positional) = 1
           ELSE /\ Call(c).stdin.mode = "pipe"
                /\ Len(Call(c).stdin.written) = 2
                /\ Call(c).stdin.written[1].type = "user"
                /\ Call(c).stdin.written[2] = NLsym
                /\ Call(c).stdin.ended
                /\ Call(c).positional = <<>>

\* C26 as stated: the child's stdin is used iff the turn has an image
\* attachment, read or not.
C26_StdinIffImageAttachment == StdinIff({"image", "unreadable"})

\* C26: the child's stdin is used iff an image attachment of the turn was
\* read: with none, stdin is never opened and the text is the last
\* positional argument; otherwise one JSON user object and a newline are
\* written to stdin, which is then closed.
C26_StdinIffImageRead == StdinIff({"image"})

C26_Witness ==
  \E c \in CallIds :
    /\ Call(c).proc # "none"
    /\ Call(c).attachments = <<"unreadable", "image">>
    /\ Call(c).stdin.ended

\* the ports of Ports no other process holds
FreePorts == Ports \ busy

\* the first free port at or above HTTP_API_PORT
FirstFree == CHOOSE p \in FreePorts : \A q \in FreePorts : p <= q

\* C23 as stated: after EADDRINUSE on a port the server tries the port
\* above it, and it eventually listens on the first free port at or above
\* 9223.
C23_FirstFreePort ==
  /\ [][listenPort # 0 /\ listenPort' # listenPort
          => listenPort \in busy /\ listenPort' = listenPort + 1]_vars
  /\ (listenState = "trying" /\ FreePorts # {})
       ~> (listenState = "listening" /\ listenPort = FirstFree)

\* C23: after EADDRINUSE on 9223 the server tries 9224, and it tries no
\* other port; it eventually listens on 9223 when 9223 is free, and on 9224
\* when 9223 is held and 9224 is free.
C23_FallbackOnce ==
  /\ [](listenPort \in {0, HTTP_API_PORT, HTTP_API_PORT + 1})
  /\ [][listenPort # 0 /\ listenPort' # listenPort
          => /\ listenPort = HTTP_API_PORT /\ listenPort \in busy
             /\ listenPort' = HTTP_API_PORT + 1]_vars
  /\ (listenState = "trying" /\ HTTP_API_PORT \notin busy)
       ~> (listenState = "listening" /\ listenPort = HTTP_API_PORT)
  /\ (listenState = "trying" /\ HTTP_API_PORT \in busy /\ HTTP_API_PORT + 1 \notin busy)
       ~> (listenState = "listening" /\ listenPort = HTTP_API_PORT + 1)

\* the server listens on 9224 while 9223 is held
C23_Witness ==
  /\ listenState = "listening" /\ listenPort = HTTP_API_PORT + 1
  /\ HTTP_API_PORT \in busy

\* the calls of getOrCreateThread that made a Thread for name n
MadeFor(n) == {k \in CreationIds : creations[k].name = n /\ creations[k].created}

\* C24: for each name at most one call of getOrCreateThread makes a Thread
\* and a tool-config file, and the calls that have returned for one name
\* returned the same Thread.
C24_OneThreadPerName ==
  \A n \in Names :
    /\ Cardinality(MadeFor(n)) <= 1
    /\ \A k, l \in CreationIds :
         /\ creations[k].name = n /\ creations[k].pc = "returned"
         /\ creations[l].name = n /\ creations[l].pc = "returned"
         => creations[k].thread = creations[l].thread

\* C25: when destroy has run, no tool-config file is on disk.
C25_NoConfigLeft ==
  [][~destroyed /\ destroyed' => files' = {}]_vars

\* C29: the tool-config files of the Threads of two names have two paths.
C29_DistinctPaths ==
  \A k, l \in CreationIds :
    /\ creations[k].created /\ creations[l].created
    /\ creations[k].name # creations[l].name
    => creations[k].path # creations[l].path

\* C30: while the control API listens, the JANUS_API_URL of every
\* tool-config file names the port it listens on.
C30_ConfigNamesListenPort ==
  listenState = "listening" =>
    \A k \in CreationIds : creations[k].created => creations[k].apiPort = listenPort

\* C21: a send_to_agent with a message whose target is the caller's own
\* name returns delivered false with 'Cannot send message to self' in the
\* step of the call, which makes no request and injects nothing; such a call
\* never makes a request.
C21_SelfSendRejected ==
  /\ [][\A k \in ToolIds :
         ( /\ tools[k].pc = "none" /\ tools'[k].pc # "none"
           /\ tools'[k].hasMessage /\ tools'[k].target = tools'[k].self )
         => /\ tools'[k].pc = "done"
            /\ ~tools'[k].delivered
            /\ tools'[k].error = "Cannot send message to self"
            /\ UNCHANGED <<requests, nRequests, bridgeVars>>]_vars
  /\ [](\A k \in ToolIds :
          tools[k].pc # "none" /\ tools[k].hasMessage /\ tools[k].target = tools[k].self
          => tools[k].reqs = 0 /\ tools[k].pc = "done")

C21_Witness ==
  \E k \in ToolIds :
    /\ tools[k].pc = "done" /\ tools[k].target = tools[k].self
    /\ tools[k].error = "Cannot send message to self"
    /\ nRequests = 0

\* C22: a request whose handling throws is answered 500, and the server
\* stays up.
C22_HandlerErrorAnswered ==
  /\ [][\A r \in ReqIds :
         requests[r].pc = "bad" /\ requests'[r] # requests[r]
         => requests'[r].pc = "done" /\ requests'[r].status = 500]_vars
  /\ []serverUp

\* C31: the exchange a finalizer records pairs the turn's response with the
\* user message of the same turn.
C31_ExchangeOfSameTurn ==
  \A c \in CallIds :
    Call(c).pc = "done" /\ Call(c).appendOk = "ok" /\ ~Call(c).sessionFailed
    => Call(c).exchange = c

\* ---------------------------------------------------------------------------
\* formatRecentContext: the block of recent messages in the system prompt.
\* A message is its role and the token estimate of its content; a formatted
\* line is the index of its message and the token estimate of the line.

\* RECENT_MSG_MAX_TOKENS, scaled to the token estimates of the model
RECENT_MSG_MAX_TOKENS == 2

\* estimateTokensFn(header + footer)
overhead == 1

\* the estimate of `[${label}]: ` and the newline around the content
LabelTokens(role) ==
  IF role = "user" THEN 1 ELSE 2

RecentRoles == {"user", "assistant"}

RecentMessage == [role : RecentRoles, tokens : 1..MaxMsgTokens]

RECURSIVE SeqsUpTo(_, _)
SeqsUpTo(S, n) ==
  IF n = 0 THEN {<<>>}
  ELSE LET shorter == SeqsUpTo(S, n - 1)
       IN shorter \cup {Append(q, x) : q \in shorter, x \in S}

\* truncateToTokens on the estimate: content within the limit is returned
\* as it is, longer content is cut to maxTokens * 3 characters and marked,
\* which the model estimates at the limit
truncateToTokens(tokens, maxTokens) ==
  IF tokens <= maxTokens THEN tokens ELSE maxTokens

\* estimateTokensFn(line) of the line made for a message
lineTokens(msg) ==
  LabelTokens(msg.role) + truncateToTokens(msg.tokens, RECENT_MSG_MAX_TOKENS)

\* formatted.push would put the newest line first
Push(formatted, line) ==
  Append(formatted, line)

\* formatted.unshift(line)
Unshift(formatted, line) ==
  <<line>> \o formatted

\* the loop of formatRecentContext from message i down, with `remaining`
\* tokens left and the lines in `formatted`
RECURSIVE Walk(_, _, _, _)
Walk(recentMessages, i, remaining, formatted) ==
  IF i = 0 \/ remaining <= 0 THEN formatted
  ELSE IF lineTokens(recentMessages[i]) > remaining THEN formatted
  ELSE Walk(recentMessages, i - 1,
            remaining - lineTokens(recentMessages[i]),
            Unshift(formatted,
                    [index |-> i, tokens |-> lineTokens(recentMessages[i])]))

\* formatRecentContext(recentMessages, budgetTokens, estimateTokensFn):
\* the lines of the block, and whether the header and footer frame them
\* (an unframed block with no lines is the empty string)
formatRecentContext(recentMessages, budgetTokens) ==
  IF Len(recentMessages) = 0 \/ budgetTokens <= 0
    THEN [lines |-> <<>>, framed |-> FALSE]
  ELSE IF budgetTokens - overhead <= 0
    THEN [lines |-> <<>>, framed |-> FALSE]
  ELSE LET formatted == Walk(recentMessages, Len(recentMessages),
                             budgetTokens - overhead, <<>>)
       IN IF Len(formatted) = 0 THEN [lines |-> <<>>, framed |-> FALSE]
          ELSE [lines |-> formatted, framed |-> TRUE]

\* generateSystemPrompt formats the recent messages within a budget, once
\* for a prompt
FormatRecentContext(recentMessages, budgetTokens) ==
  /\ ~prompt.ran
  /\ prompt' = [ran |-> TRUE, messages |-> recentMessages,
                budget |-> budgetTokens,
                lines |-> formatRecentContext(recentMessages, budgetTokens).lines,
                framed |-> formatRecentContext(recentMessages, budgetTokens).framed]
  /\ UNCHANGED <<bridgeVars, apiVars, hostVars, mcpVars, panelVars>>

\* SpecFormat: formatRecentContext on every list of recent messages and
\* budget within the bounds
FormatNext ==
  \E recentMessages \in SeqsUpTo(RecentMessage, MaxMessages),
     budgetTokens \in 0..MaxBudget :
    FormatRecentContext(recentMessages, budgetTokens)

SpecFormat == Init /\ [][FormatNext]_vars

RECURSIVE SumTokens(_)
SumTokens(lines) ==
  IF lines = <<>> THEN 0 ELSE Head(lines).tokens + SumTokens(Tail(lines))

\* C32: the block holds a contiguous run of the most recent messages, oldest
\* first, whose lines sum to at most the budget less the frame's overhead;
\* the run ends at the first message, walking back from the newest, whose
\* line exceeds what remains; with no line the block is empty.
C32_RecentRun ==
  prompt.ran =>
    LET n == Len(prompt.messages)
        k == Len(prompt.lines)
        left == prompt.budget - overhead - SumTokens(prompt.lines)
    IN /\ k <= n
       /\ \A j \in 1..k :
            /\ prompt.lines[j].index = n - k + j
            /\ prompt.lines[j].tokens = lineTokens(prompt.messages[n - k + j])
       /\ k > 0 => left >= 0
       /\ k < n => lineTokens(prompt.messages[n - k]) > left
       /\ prompt.framed = (k > 0)

\* a block that stopped at a message over what remained while the message
\* before that one would have fitted
C32_Witness ==
  /\ prompt.ran
  /\ Len(prompt.lines) >= 1
  /\ Len(prompt.messages) = Len(prompt.lines) + 2
  /\ lineTokens(prompt.messages[1])
       <= prompt.budget - overhead - SumTokens(prompt.lines)

\* C33: when the stream processor throws on a line, the raw line is decoded
\* as it is: its text is added to the response and sent, its segments are
\* collected and sent, no error event is sent, and the lines after it are
\* decoded as well.
C33_RawLineOnThrow ==
  /\ [](\A c \in CallIds :
          /\ Count(c, "error") = 0
          /\ Len(SentSegments(c)) =
               Len(WireSegments(DoneLines(Call(c).pendingLines))))
  /\ [][\A c \in CallIds : \A i \in DOMAIN Call(c).pendingLines :
          /\ i \in DOMAIN calls'[c].pendingLines
          /\ ~Call(c).pendingLines[i].done
          /\ calls'[c].pendingLines[i].done /\ calls'[c].pendingLines[i].thrown
          => LET line == Call(c).pendingLines[i].line
                 add == Addition(Call(c).fullResponse,
                                 extractTextFromStreamLine(line))
                 segs == parseStreamSegments(line)
             IN /\ calls'[c].fullResponse
                     = Call(c).fullResponse \o Join(add, <<>>)
                /\ calls'[c].collectedSegments
                     = Call(c).collectedSegments \o segs
                /\ events'[c] = events[c]
                     \o [k \in 1..Len(add) |-> ChunkEv(c, add[k])]
                     \o [k \in 1..Len(segs) |-> SegmentEv(c, segs[k])]]_vars

\* the processor threw on a line with text, a later line was decoded, and
\* the turn ended with both in the response
C33_Witness ==
  \E c \in CallIds : \E i, j \in DOMAIN Call(c).pendingLines :
    /\ i < j
    /\ Call(c).pendingLines[i].thrown
    /\ extractTextFromStreamLine(Call(c).pendingLines[i].line) # <<>>
    /\ Call(c).pendingLines[j].done /\ ~Call(c).pendingLines[j].thrown
    /\ Len(Call(c).collectedSegments) >= 2
    /\ Call(c).pc = "done"

\* C34: a call of send_to_agent posts to /api/agents at most once and posts
\* the message at most twice; when the creation failed it ends with the
\* creation's error and without a second post of the message, and when the
\* creation succeeded it ends with the result of the second post.
C34_OneCreateOneRetry ==
  \A k \in ToolIds :
    /\ tools[k].creates <= 1
    /\ tools[k].reqs - tools[k].creates <= 2
    /\ tools[k].creates = 0 => tools[k].reqs <= 1
    /\ tools[k].pc = "done" /\ tools[k].creates = 1 =>
         IF requests[tools[k].createReq].status = 500
           THEN /\ tools[k].reqs = 2
                /\ ~tools[k].delivered
                /\ tools[k].error = "Failed to auto-create agent tab"
           ELSE /\ tools[k].reqs = 3
                /\ tools[k].req # tools[k].createReq
                /\ requests[tools[k].req].kind = "message"
                /\ tools[k].delivered = requests[tools[k].req].flag
                /\ (tools[k].error = "not found")
                     = (requests[tools[k].req].status = 404)

\* a call that created the target's tab and delivered on its second post,
\* and a call that ended on a failed creation
C34_Witness ==
  \E k \in ToolIds :
    /\ tools[k].pc = "done"
    /\ tools[k].creates = 1
    /\ tools[k].reqs = 3
    /\ tools[k].delivered

C34_WitnessFailed ==
  \E k \in ToolIds :
    /\ tools[k].pc = "done"
    /\ tools[k].creates = 1
    /\ requests[tools[k].createReq].status = 500

\* C35: once destroy has run, no child is registered and every live child
\* has been sent the terminate signal, then and ever after.
C35_NothingAfterDestroy ==
  destroyed =>
    /\ \A t \in Names : activeProcesses[t] = 0
    /\ \A c \in CallIds : Call(c).proc = "live" => Call(c).signalled

\* C36: an invocation of handleCompletion after the first of a turn changes
\* nothing: no message is appended, no event is sent, the registration and
\* the turn's state stay as they are; a turn has at most one stream-end and
\* at most one assistant message.
C36_SecondInvocationNoEffect ==
  /\ [](\A c \in CallIds :
          /\ Count(c, "stream-end") <= 1
          /\ Cardinality(AssistantsOf(c)) <= 1)
  /\ [][\A c \in CallIds :
          Call(c).invoked >= 1 /\ calls'[c].invoked > Call(c).invoked
          => /\ history' = history
             /\ events' = events
             /\ activeProcesses' = activeProcesses
             /\ calls'[c] = [Call(c) EXCEPT !.invoked = @ + 1]]_vars

\* the finalizer was invoked a second time, and the turn ended with its one
\* message and its one stream-end
C36_Witness ==
  \E c \in CallIds :
    /\ Call(c).invoked = 2
    /\ Call(c).pc = "done"
    /\ Cardinality(AssistantsOf(c)) = 1
    /\ Count(c, "stream-end") = 1

\* C37: a round trip to the renderer is resolved exactly once, with the
\* result when the result comes while it is pending and with null when the
\* timer fires first, and it is pending no longer; every round trip is
\* resolved in the end, and a result or a timer that comes after that
\* changes nothing of it.
C37_ResolvedOnce ==
  /\ [](\A r \in ReqIds :
          /\ requests[r].resolveCalls <= 1
          /\ requests[r].entry = (requests[r].timer # "none"
                                  /\ requests[r].resolveCalls = 0)
          /\ requests[r].value = "result"
               => requests[r].results >= 1 /\ requests[r].status # 500
          /\ requests[r].value = "null"
               => requests[r].timer = "fired" /\ requests[r].status = 500)
  /\ \A r \in ReqIds :
       requests[r].entry
         ~> (~requests[r].entry /\ requests[r].resolveCalls = 1)
  /\ [][\A r \in ReqIds :
          requests[r].resolveCalls = 1
          /\ (requests'[r].results > requests[r].results
              \/ requests'[r].timer # requests[r].timer)
          => /\ requests'[r].value = requests[r].value
             /\ requests'[r].resolveCalls = 1
             /\ ~requests'[r].entry
             /\ Response(requests'[r]) = Response(requests[r])]_vars

\* a round trip resolved with the result whose timer fired later and whose
\* result came twice, and one resolved with null whose result came late
C37_Witness ==
  /\ \E r \in ReqIds :
       /\ requests[r].value = "result"
       /\ requests[r].timer = "fired"
       /\ requests[r].results = 2
  /\ \E r \in ReqIds :
       /\ requests[r].value = "null"
       /\ requests[r].results >= 1

\* the panel has handled the stream-end of call c
EndHandled(c) ==
  \E i \in 1..panel.read[c] : events[c][i].type = "stream-end"

EndWithMessageHandled(c) ==
  \E i \in 1..panel.read[c] :
    events[c][i].type = "stream-end" /\ events[c][i].message

\* C38: the stream-ends the panel suppresses are those of turns whose text
\* was streaming when the user sent a message; the stream-end of a turn
\* sent during streaming is not suppressed, and once it is handled the
\* turn's assistant message is in the list, once.
C38_SuppressesStreamingTurn ==
  /\ panel.suppressed \subseteq panel.frozen
  /\ \A c \in panel.frozen : EndHandled(c) => c \in panel.suppressed
  /\ \A c \in panel.interjected :
       /\ c \notin panel.suppressed
       /\ EndWithMessageHandled(c)
            => Cardinality({i \in DOMAIN panel.messages :
                              panel.messages[i] = Entry("assistant", c)}) = 1

====
